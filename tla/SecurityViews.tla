--------------------------- MODULE SecurityViews ---------------------------
(***************************************************************************)
(* The zero-copy views of src/security/view.rs.  A view is the slice it    *)
(* spans, and every accessor parses that slice again.  NoView and Garbled  *)
(* stand for the -1 of an accessor.                                        *)
(***************************************************************************)
EXTENDS Wire

NoView == <<>>

acl_fully_valid(b) == \A i \in DOMAIN AclEntries(b) : AceParse(AclEntries(b)[i]) # NoAce

\* The offset fields of the header, in its order.
OWNER == 4
GROUP == 8
SACL == 12
DACL == 16

\* SecurityDescriptor::owner and group, dacl and sacl: offset 0 means absent.
SdSid(b, field) == IF At(b, field, 4) = 0 THEN Garbled ELSE SidAt(b, At(b, field, 4))
SdAcl(b, field) ==
  LET off == At(b, field, 4)
  IN  IF off = 0 THEN NoView ELSE Slice(b, off, At(b, off + 2, 2))

\* The ACLs are validated here, so that the accessors need not fail.
peios_sd_parse(b) ==
  IF /\ SdParses(b)
     /\ \A field \in {DACL, SACL} :
          SdAcl(b, field) = NoView \/ acl_fully_valid(SdAcl(b, field))
  THEN b ELSE NoView

peios_sd_view_control(v) == IF SdParses(v) THEN At(v, 2, 2) ELSE 0
peios_sd_view_owner(v) == IF SdParses(v) THEN SdSid(v, OWNER) ELSE Garbled
peios_sd_view_group(v) == IF SdParses(v) THEN SdSid(v, GROUP) ELSE Garbled

sd_acl(v, field) == IF SdParses(v) THEN SdAcl(v, field) ELSE NoView
peios_sd_view_dacl(v) == sd_acl(v, DACL)
peios_sd_view_sacl(v) == sd_acl(v, SACL)

-----------------------------------------------------------------------------

peios_acl_parse(b) ==
  IF AclParses(b) /\ acl_fully_valid(b) THEN Slice(b, 0, At(b, 2, 2)) ELSE NoView

peios_acl_view_count(v) == IF AclParses(v) THEN At(v, 4, 2) ELSE 0

\* The i-th ACE, from 0; NoView is EINVAL or ERANGE.
peios_acl_view_ace(v, i) ==
  IF AclParses(v) /\ i < Len(AclEntries(v)) /\ AceParse(AclEntries(v)[i + 1]) # NoAce
  THEN AclEntries(v)[i + 1] ELSE NoView

\* The fields of an ACE: type, flags and mask are 0 where it does not parse, the
\* SID is refused there, and so is a GUID or application data its kind lacks.
AceField(e, field, otherwise) ==
  IF AceParse(e) = NoAce THEN otherwise ELSE AceParse(e)[field]
peios_ace_view_type(e) == AceField(e, "type", 0)
peios_ace_view_flags(e) == AceField(e, "flags", 0)
peios_ace_view_mask(e) == AceField(e, "mask", 0)
peios_ace_view_sid(e) == AceField(e, "sid", Garbled)
object_guid(e, field) == AceField(e, field, None)
peios_ace_view_object_type(e) == object_guid(e, "object_type")
peios_ace_view_inherited_object_type(e) == object_guid(e, "inherited_object_type")
peios_ace_view_app_data(e) ==
  IF is_callback_ace(peios_ace_view_type(e)) THEN AceField(e, "app_data", NoView) ELSE NoView

-----------------------------------------------------------------------------
(* SID-and-attributes arrays: [count][sid_len][sid][attrs]... *)

sid_array_count_of(blob) == IF Len(blob) < 4 THEN 0 ELSE At(blob, 0, 4)

\* Mutant: every entry is taken to be as long as the first.
EntryStride(blob, i) == 4 + i * (8 + At(blob, 4, 4))

\* Where entry i starts; only asked of a blob that was validated.
EntryOffset(blob, i) ==
  LET walk[n \in Nat] == IF n = 0 THEN 4 ELSE walk[n - 1] + 4 + At(blob, walk[n - 1], 4) + 4
  IN  walk[i]

\* Mutant: bytes after the last entry are let through.
SidArrayTail(blob) ==
  LET walk[i \in Nat, off \in Nat] ==
        LET end == off + 4 + At(blob, off, 4)
        IN  \/ i = sid_array_count_of(blob) /\ off <= Len(blob)
            \/ /\ i < sid_array_count_of(blob)
               /\ off + 4 <= Len(blob) /\ end <= Len(blob)
               /\ sid_valid(SubSeq(blob, off + 5, end))
               /\ walk[i + 1, end + 4]
  IN  Len(blob) >= 4 /\ walk[0, 4]

\* Every entry in turn is within the blob, and the last one ends it.
sid_array_valid(blob) ==
  LET walk[i \in Nat, off \in Nat] ==
        LET end == off + 4 + At(blob, off, 4)
        IN  \/ i = sid_array_count_of(blob) /\ off = Len(blob)
            \/ /\ i < sid_array_count_of(blob)
               /\ off + 4 <= Len(blob) /\ end <= Len(blob)
               /\ sid_valid(SubSeq(blob, off + 5, end))
               /\ end + 4 <= Len(blob)
               /\ walk[i + 1, end + 4]
  IN  Len(blob) >= 4 /\ walk[0, 4]

peios_sid_array_parse(blob) == IF sid_array_valid(blob) THEN blob ELSE NoView

NoEntry == <<Garbled, Garbled>>

\* <<sid, attrs>> of entry i, from 0.
peios_sid_array_get(v, i) ==
  LET off == EntryOffset(v, i)
      len == At(v, off, 4)
  IN  IF i >= sid_array_count_of(v) THEN NoEntry
      ELSE <<SidAt(Slice(v, off + 4, len), 0), At(v, off + 4 + len, 4)>>
=============================================================================

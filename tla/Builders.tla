------------------------------ MODULE Builders ------------------------------
(***************************************************************************)
(* A caller that builds an ACL, passes its bytes on to the security-       *)
(* descriptor builder or to the token builder, and reads what they give    *)
(* with the views of src/security/view.rs or as the kernel would.          *)
(***************************************************************************)
EXTENDS AclBuilder, SdBuilder, TokenBuilder, SecurityViews

CONSTANT MaxCalls     \* bound: adder and setter calls

VARIABLES
  subject,            \* what the caller builds besides ACLs
  calls               \* how many adder and setter calls there were

buildVars == <<aclVars, sdVars, tokVars, subject, calls>>

BuildStart(subjects) ==
  /\ AclInit /\ SdInit /\ TokInit
  /\ subject \in subjects /\ calls = 0

BuildInit == BuildStart({"descriptor", "token"})

\* ACL bytes a caller can pass: what the ACL builder gave, a truncated copy, NULL.
AclArgs ==
  {NullArg} \cup IF aclOut = <<>> THEN {} ELSE {aclOut, SubSeq(aclOut, 1, Len(aclOut) - 1)}

\* An adder, a setter or a reset.
Call ==
  /\ calls < MaxCalls /\ calls' = calls + 1
  /\ \/ AclCalls /\ UNCHANGED <<sdVars, tokVars>>
     \/ subject = "descriptor" /\ SdCalls(AclArgs) /\ UNCHANGED <<aclVars, tokVars>>
     \/ subject = "token" /\ TokCalls(AclArgs) /\ UNCHANGED <<aclVars, sdVars>>

\* The bytes are taken.
Take ==
  /\ UNCHANGED calls
  /\ \/ \E enough \in BOOLEAN : AclTake(enough) /\ UNCHANGED <<sdVars, tokVars>>
     \/ \E enough \in BOOLEAN : subject = "descriptor" /\ SdTake(enough) /\ UNCHANGED <<aclVars, tokVars>>
     \/ subject = "token" /\ TokTake /\ UNCHANGED <<aclVars, sdVars>>

BuildNext == (Call \/ Take) /\ UNCHANGED subject

BuildSpec == BuildInit /\ [][BuildNext]_buildVars

-----------------------------------------------------------------------------

\* An ACE as its accessors show it.
ShownAce(e) ==
  [type |-> peios_ace_view_type(e), flags |-> peios_ace_view_flags(e),
   mask |-> peios_ace_view_mask(e), sid |-> peios_ace_view_sid(e),
   object_type |-> peios_ace_view_object_type(e),
   inherited_object_type |-> peios_ace_view_inherited_object_type(e),
   app_data |-> peios_ace_view_app_data(e)]

\* The ACL a caller gets from peios_acl_builder_bytes or _finish parses, and shows
\* every ACE that was asked for since the last reset, in order and field by field,
\* and no other; the revision is the lowest that admits them all.  In particular no
\* adder that failed is passed over, and no size wraps around its 16 bits.
AclExact ==
  aclOut # <<>> =>
    LET v == peios_acl_parse(aclOut)
    IN  /\ v = aclOut
        /\ peios_acl_view_count(v) = Len(aclAsked)
        /\ \A i \in DOMAIN aclAsked : ShownAce(peios_acl_view_ace(v, i - 1)) = aclAsked[i]
        /\ peios_acl_view_ace(v, Len(aclAsked)) = NoView
        /\ At(v, 0, 1) = Max({ACL_REVISION}
                               \cup {minimum_acl_revision(aclAsked[i].type) : i \in DOMAIN aclAsked})

\* The descriptor a caller gets from peios_sd_builder_bytes or _finish parses, and
\* shows the owner, group, DACL and SACL last asked for since the last reset; the
\* control word has the caller's own bits, and of the bits the builder manages
\* exactly those that describe what is present.
SdExact ==
  sdOut # <<>> =>
    LET v == peios_sd_parse(sdOut)
        sid(s) == IF s = Garbled THEN <<>> ELSE SidBytes(s)
        present == {SELF_RELATIVE} \cup (IF sdAsked.dacl # <<>> THEN {DACL_PRESENT} ELSE {})
                     \cup (IF sdAsked.sacl # <<>> THEN {SACL_PRESENT} ELSE {})
    IN  /\ v = sdOut
        /\ sid(peios_sd_view_owner(v)) = sdAsked.owner
        /\ sid(peios_sd_view_group(v)) = sdAsked.group
        /\ peios_sd_view_dacl(v) = sdAsked.dacl
        /\ peios_sd_view_sacl(v) = sdAsked.sacl
        /\ ControlBits(peios_sd_view_control(v)) =
             (sdAsked.control_user \ MANAGED_CONTROL) \cup present

\* The spec that peios_token_builder_bytes gives and peios_token_builder_create
\* passes on says, read at its offsets, lengths and counts, what was asked for since
\* the last reset and nothing else: every scalar, every entry of every section, and
\* the LCS extension up to the end of the buffer.
TokenExact == tokOut # NoSpec => SpecParse(tokOut) = tokAsked

\* Whatever order of setters, failed calls, resets and renderings went before, what a
\* builder gives out says exactly what was asked of it since the last reset.
RenderedExact == AclExact /\ SdExact /\ TokenExact

\* A list of SIDs in the form token queries give it, a count and the entries, is
\* accepted by peios_sid_array_parse exactly when it is whole: the accessors then
\* show every entry asked for, in order, and a blob that is cut short or goes on
\* after the last entry is refused, so that their walk never leaves it.
SidArrayExact ==
  tokOut # NoSpec =>
    \A s \in {l \in SidLists : tokOut.off[l] # 0} :
      LET entries == tokAsked.lists[s]
          blob == Word(Len(entries), 4) \o tok.data[s]
          v == peios_sid_array_parse(blob)
      IN  /\ v = blob /\ sid_array_count_of(v) = Len(entries)
          /\ \A i \in DOMAIN entries :
               peios_sid_array_get(v, i - 1) = <<entries[i][1][1], entries[i][2]>>
          /\ peios_sid_array_get(v, Len(entries)) = NoEntry
          /\ \A n \in 0..(Len(blob) - 1) : peios_sid_array_parse(SubSeq(blob, 1, n)) = NoView
          /\ peios_sid_array_parse(blob \o <<0>>) = NoView

\* The arguments a builder must accept, after the comments of security.h and token.h.
AceOk(s) == s.sid \notin {NullSid, BadSid} /\ s.mask # ReservedMask /\ Len(s.app_data) % 4 = 0
AclWhole(b) == At(b, 2, 2) = Len(b)
SidOk(b) == \E s \in {1001, 2001} : b = SidBytes(s)
TextOk(text) == text # NullArg /\ \A i \in DOMAIN text : text[i] # 0
ClaimOk(c) ==
  /\ TextOk(c.name)
  /\ \A i \in DOMAIN c.values :
       /\ c.type = C_BOOLEAN => c.values[i] \in {0, 1}
       /\ c.type = C_STRING => TextOk(c.values[i])
       /\ c.type = C_SID => SidOk(c.values[i])
LcsOk(c) ==
  /\ Cardinality(Range(c.scopes)) = Len(c.scopes) /\ NilGuid \notin Range(c.scopes)
  /\ Cardinality({[j \in DOMAIN c.layers[i] |-> lower(c.layers[i][j])] : i \in DOMAIN c.layers})
       = Len(c.layers)

AclOk == \A i \in DOMAIN aclAsked : AceOk(aclAsked[i])
SdOk ==
  /\ \A f \in {"owner", "group"} : sdAsked[f] = <<>> \/ SidOk(sdAsked[f])
  /\ \A f \in {"dacl", "sacl"} : sdAsked[f] = <<>> \/ AclWhole(sdAsked[f])
TokOk ==
  LET asked == tokAsked.lists
  IN  /\ \A s \in {"user_sid", "confinement_sid"} : asked[s] = <<>> \/ SidOk(asked[s])
      /\ asked["default_dacl"] = <<>> \/ AclWhole(asked["default_dacl"])
      /\ \A s \in SidLists, i \in 1..MaxCalls : i <= Len(asked[s]) => SidOk(asked[s][i][1])
      /\ \A s \in ClaimLists, i \in 1..MaxCalls : i <= Len(asked[s]) => ClaimOk(asked[s][i])
      /\ \A i \in DOMAIN asked["lcs_credentials"] : LcsOk(asked["lcs_credentials"][i])
      /\ asked["supp_gids"] # NullArg /\ tokAsked.source_name # NullArg
      /\ tokAsked.scalars["write_restricted"] # Garbled

\* EINVAL is latched exactly for cause: an argument the headers rule out, a NULL
\* among them, or a result over its size limit; nothing else a caller does makes a
\* builder refuse to give its bytes, the check that they parse included.
RefusedForCause ==
  /\ acl.error = "none" => AclOk
  /\ acl.error = "EINVAL" => ~AclOk \/ AclHeader +
       Len(Concat([i \in DOMAIN aclAsked |-> AceBytes(aclAsked[i])])) > U16Max
  /\ sd.error = "none" => SdOk
  /\ sd.error = "EINVAL" => ~SdOk \/
       SD_HEADER + Len(sd.owner \o sd.group \o sd.sacl \o sd.dacl) > SD_MAX
  /\ tok.error = "none" => TokOk
  /\ tok.error = "EINVAL" => ~TokOk \/
       SPEC_HEADER + MapThenSumSet(LAMBDA s : Len(tok.data[s]), Sections) > SPEC_MAX

\* An error stays latched, and stays the first one, until the builder is reset.
StickyFirstError ==
  [][/\ acl.error # "none" => acl'.error = acl.error \/ aclAsked' = <<>>
     /\ sd.error # "none" => sd'.error = sd.error \/ sdAsked' = Unset
     /\ tok.error # "none" => tok'.error = tok.error \/ tokAsked' = NothingAsked]_buildVars
=============================================================================

-------------------------------- MODULE Sddl --------------------------------
(***************************************************************************)
(* SDDL text to the bytes of a descriptor and back,                        *)
(* security/sddl/grammar/mod.rs, and the four calls of                     *)
(* security/sddl_ffi.rs that offer it.  An access mask in a text is a      *)
(* number of codes, then Lit("0x", bits); or Lit("dec", bits) alone.       *)
(***************************************************************************)
EXTENDS Claim

CONSTANT MAX_SDDL_TEXT    \* bound: the longest text a call takes, here in tokens

DACL_AUTO_INHERIT_REQ == 256
SACL_AUTO_INHERIT_REQ == 512
DACL_AUTO_INHERITED == 1024
SACL_AUTO_INHERITED == 2048
DACL_PROTECTED == 4096
SACL_PROTECTED == 8192

\* The prefix of each kind of ACL, in the order it is written, and its PRESENT bit.
AclFlags ==
  [dacl |-> << <<"P", DACL_PROTECTED>>, <<"AR", DACL_AUTO_INHERIT_REQ>>, <<"AI", DACL_AUTO_INHERITED>> >>,
   sacl |-> << <<"P", SACL_PROTECTED>>, <<"AR", SACL_AUTO_INHERIT_REQ>>, <<"AI", SACL_AUTO_INHERITED>> >>]
Present == [dacl |-> DACL_PRESENT, sacl |-> SACL_PRESENT]
AclHeader == [dacl |-> "D:", sacl |-> "S:"]
NULL_ACL == "NO_ACCESS_CONTROL"

\* A text that could not be written.
NoText == <<T("refused")>>

-----------------------------------------------------------------------------
(* Splitting a text. *)

\* Depth with a stray ")" ignored.
SaturatingDepth(s) ==
  LET d[i \in 0..Len(s)] ==
        IF i = 0 THEN 0
        ELSE IF s[i].t = "(" THEN d[i - 1] + 1
        ELSE IF s[i].t = ")" /\ d[i - 1] > 0 THEN d[i - 1] - 1 ELSE d[i - 1]
  IN  d

SectionHeaders == {"O:", "G:", "D:", "S:"}
UnknownHeaders == {"X:"}

\* The sections of a text, in its order, or a section of kind "bad".
BadSections == <<[kind |-> "bad", body |-> <<>>]>>
Sections(s, outer, starts) ==
  IF \/ \E i \in outer : s[i].t \in UnknownHeaders
     \/ \E j, k \in DOMAIN starts : j # k /\ s[starts[j]].t = s[starts[k]].t
  THEN BadSections
  ELSE [k \in DOMAIN starts |->
          [kind |-> s[starts[k]].t,
           body |-> SubSeq(s, starts[k] + 1, IF k < Len(starts) THEN starts[k + 1] - 1 ELSE Len(s))]]
split_sections(s) ==
  LET from(outer) == Sections(s, outer, AsSeq({i \in outer : s[i].t \in SectionHeaders}))
      outside(depth) == {i \in DOMAIN s : depth[i] = 0}
  IN  from(outside(SaturatingDepth(s)))

\* The end of the group a text begins with, 0 where it is not one or is not closed.
take_paren_group(s) ==
  LET closed == {i \in DOMAIN s : Depth(s)[i] = 0}
  IN  IF closed = {} \/ Peek(s, 1) # "(" THEN 0 ELSE Min(closed)

\* The pieces of a text between these places, in order.
Cut(s, ends) == [i \in 1..(Len(ends) - 1) |-> SubSeq(s, ends[i] + 1, ends[i + 1] - 1)]

\* Split at the semicolons outside parentheses.
split_ace_fields(s) ==
  LET cuts(depth) == AsSeq({i \in DOMAIN s : s[i].t = ";" /\ depth[i] = 0})
  IN  Cut(s, <<0>> \o cuts(SaturatingDepth(s)) \o <<Len(s) + 1>>)

-----------------------------------------------------------------------------
(* The fields of an ACE.  A set with no member is a field that is refused. *)

parse_ace_flags(s) ==
  IF \A i \in DOMAIN s : Lookup(ACE_FLAG_CODES, s[i].t) # {}
  THEN {UNION {Lookup(ACE_FLAG_CODES, s[i].t) : i \in DOMAIN s}} ELSE {}

\* A hexadecimal tail takes the rest of the field.
parse_rights(s) ==
  LET bits(i) == IF s[i].t = "0x" /\ i = Len(s) THEN {ToSet(s[i].v)}
                 ELSE Lookup(RIGHTS_PARSE, s[i].t)
  IN  IF Len(s) = 1 /\ Peek(s, 1) = "dec" THEN {ToSet(s[1].v)}
      ELSE IF \A i \in DOMAIN s : bits(i) # {}
      THEN {UNION UNION {bits(i) : i \in DOMAIN s}} ELSE {}

parse_optional_guid(s) ==
  IF s = <<>> THEN {NoGuid} ELSE IF Len(s) = 1 /\ s[1].t = "guid" THEN {s[1].v[1]} ELSE {}

\* AceBuilder::raw, where the body may be too long.
Raw(type, flags, body) ==
  IF Len(body) > MaxBody THEN BadAce ELSE [type |-> type, flags |-> flags, body |-> body]

\* Mutant: the condition of an object ACE is left out.
BodyOfUnconditional(type, mask, object_type, inherited_object_type, sid, condition) ==
  IF is_object_ace(type) THEN object_body(mask, object_type, inherited_object_type, sid)
  ELSE mask_sid_body(mask, sid) \o (IF is_callback_ace(type) THEN encode(condition) ELSE <<>>)

\* What an ACE holds after its header, for a type other than RA.
BodyOf(type, mask, object_type, inherited_object_type, sid, condition) ==
  (IF is_object_ace(type) THEN object_body(mask, object_type, inherited_object_type, sid)
   ELSE mask_sid_body(mask, sid))
    \o (IF is_callback_ace(type) THEN encode(condition) ELSE <<>>)

\* The ACE of an RA, whose other fields are not read again; and of any other type.
AttributeAce(flags, claim) ==
  IF claim = NoClaim THEN BadAce
  ELSE Raw(ACE_TYPE_CODES["RA"], flags, MaskBytes({}) \o SidEncode(Everyone) \o claim_encode(claim))
PlainAce(type, flags, mask, object_type, inherited, sid, condition) ==
  IF sid = <<>> \/ (is_callback_ace(type) /\ condition = NoCond) THEN BadAce
  ELSE Raw(type, flags, BodyOf(type, mask, object_type, inherited, sid, condition))

\* A field a type does not read is not refused, except on a plain object ACE.
AceOf(type, fields, flags, mask, object_type, inherited) ==
  LET payload == Len(fields) = 7
      callback == is_callback_ace(type)
  IN  IF {} \in {flags, mask, object_type, inherited} THEN BadAce
      ELSE IF {NoGuid} # object_type \cup inherited /\ ~is_object_ace(type) THEN BadAce
      ELSE IF (type = ACE_TYPE_CODES["RA"] \/ callback) /\ ~payload THEN BadAce
      ELSE IF type = ACE_TYPE_CODES["RA"] THEN AttributeAce(The(flags), parse_claim(fields[7]))
      ELSE IF is_object_ace(type) /\ ~callback /\ payload THEN BadAce
      ELSE PlainAce(type, The(flags), The(mask), The(object_type), The(inherited),
                    parse_sid_ref(fields[6]), IF callback THEN parse_condition(fields[7]) ELSE NoCond)
AceOfFields(fields) ==
  IF Len(fields) \notin {6, 7} THEN BadAce
  ELSE IF Len(fields[1]) # 1 \/ Peek(fields[1], 1) \notin DOMAIN ACE_TYPE_CODES THEN BadAce
  ELSE AceOf(ACE_TYPE_CODES[Peek(fields[1], 1)], fields, parse_ace_flags(fields[2]), parse_rights(fields[3]),
             parse_optional_guid(fields[4]), parse_optional_guid(fields[5]))
parse_ace(s) == AceOfFields(split_ace_fields(s))

-----------------------------------------------------------------------------
(* ACLs and descriptors. *)

\* The ACEs of a text of groups.
RECURSIVE parse_groups(_)
parse_groups(s) ==
  LET from(end) == IF end = 0 THEN <<BadAce>>
                   ELSE <<parse_ace(SubSeq(s, 2, end - 1))>> \o parse_groups(SubSeq(s, end + 1, Len(s)))
  IN  IF s = <<>> THEN <<>> ELSE from(take_paren_group(s))

NoAcl == [acl |-> {<<BadAce>>}, control |-> {}]

\* A NULL ACL has flags but no ACEs and is not PRESENT.
AclOf(prefix, aces, kind) ==
  LET nulls == {i \in DOMAIN prefix : prefix[i].t = NULL_ACL}
      bits(i) == Lookup(AclFlags[kind], prefix[i].t)
  IN  IF \/ \E i \in DOMAIN prefix \ nulls : bits(i) = {}
         \/ Cardinality(nulls) > 1
         \/ nulls # {} /\ aces # <<>>
         \/ BadAce \in ToSet(aces)
      THEN NoAcl
      ELSE [acl |-> IF nulls = {} THEN {aces} ELSE {},
            control |-> UNION {bits(i) : i \in DOMAIN prefix \ nulls}
                          \cup (IF nulls = {} THEN {Present[kind]} ELSE {})]
parse_acl(s, kind) ==
  LET from(first) == AclOf(SubSeq(s, 1, first - 1), parse_groups(SubSeq(s, first, Len(s))), kind)
      orEnd(first) == IF first = 0 THEN Len(s) + 1 ELSE first
  IN  from(orEnd(Find(s, 1, "(")))

\* The sections in any order; BadAce among the ACEs is a text that is refused.
NoSd == [NewSd EXCEPT !.dacl = {<<BadAce>>}]
SdOf(sids, acls) ==
  LET all == acls["dacl"] \cup acls["sacl"]
      sid(header) == IF sids[header] = {} THEN <<>> ELSE The(sids[header])
      lists(kind) == UNION {x.acl : x \in acls[kind]}
  IN  IF <<>> \in sids["O:"] \cup sids["G:"] \/ NoAcl \in all THEN NoSd
      ELSE [owner |-> sid("O:"), group |-> sid("G:"), dacl |-> lists("dacl"), sacl |-> lists("sacl"),
            extra_control |-> UNION {x.control : x \in all}]
parse(s) ==
  LET of(sections, header) == {sections[i].body : i \in {j \in DOMAIN sections : sections[j].kind = header}}
      from(sections) ==
        IF sections \in {<<>>, BadSections} THEN NoSd
        ELSE SdOf([header \in {"O:", "G:"} |-> {parse_sid_ref(b) : b \in of(sections, header)}],
                  [kind \in DOMAIN AclHeader |-> {parse_acl(b, kind) : b \in of(sections, AclHeader[kind])}])
  IN  from(split_sections(s))

-----------------------------------------------------------------------------
(* The formatter. *)

\* The codes of a table that fit what is left of a set, and then what is left.
Spelled(table, bits) ==
  LET left[i \in 0..Len(table)] ==
        IF i = 0 THEN bits
        ELSE IF table[i][2] \subseteq left[i - 1] THEN left[i - 1] \ table[i][2] ELSE left[i - 1]
      used == SelectSeq([i \in DOMAIN table |-> i], LAMBDA i : table[i][2] \subseteq left[i - 1])
      rest == left[Len(table)]
  IN  [i \in DOMAIN used |-> T(table[used[i]][1])]
        \o (IF rest = {} THEN <<>> ELSE <<Lit("0x", AsSeq(rest))>>)

format_ace_flags(flags) ==
  Spelled([i \in DOMAIN ACE_FLAG_CODES |-> <<ACE_FLAG_CODES[i][1], {ACE_FLAG_CODES[i][2]}>>], flags)

format_rights_for_type(mask, type) ==
  Spelled(IF type = ACE_TYPE_CODES["ML"] THEN LABEL_RIGHTS ELSE RIGHTS_FORMAT, mask)

\* What an ACE holds and the bytes from its SID on; tail is Bad where it is too short.
decode_ace_body(ace) ==
  LET n == Len(ace.body)
      present == BitsOf(At(ace.body, 4, 4))
      inherited_at == 8 + (IF 0 \in present THEN 16 ELSE 0)
      sid_at_off == inherited_at + (IF 1 \in present THEN 16 ELSE 0)
      mask == MaskAt(ace.body, 0)
      short == [mask |-> {}, object_type |-> NoGuid, inherited |-> NoGuid, tail |-> Bad]
  IN  IF ~is_object_ace(ace.type)
      THEN IF n < 4 THEN short
           ELSE [mask |-> mask, object_type |-> NoGuid, inherited |-> NoGuid, tail |-> Rest(ace.body, 4)]
      ELSE IF n < 8 THEN short ELSE IF sid_at_off > n THEN short
      ELSE [mask |-> mask,
            object_type |-> IF 0 \in present THEN At(ace.body, 8, 16) ELSE NoGuid,
            inherited |-> IF 1 \in present THEN At(ace.body, inherited_at, 16) ELSE NoGuid,
            tail |-> Rest(ace.body, sid_at_off)]

format_guid(g) == IF g = NoGuid THEN <<>> ELSE <<Lit("guid", <<g>>)>>

\* The seventh field, as a sequence of at most one text; of an empty one where the
\* payload does not decode.
ConditionText(c) == IF c = NoCond THEN <<>> ELSE Wrapped(format_condition(c), TRUE)
format_payload(type, after) ==
  CASE type = ACE_TYPE_CODES["RA"] -> <<format_claim_payload(after)>>
    [] is_callback_ace(type) -> <<ConditionText(decode_artx(after))>>
    [] OTHER -> <<>>

FormatFields(code, ace, body, sid, payload) ==
  IF sid = NoSid \/ payload = <<<<>>>> THEN NoText
  ELSE Wrapped(Joined(<< <<T(code)>>, format_ace_flags(ace.flags),
                         format_rights_for_type(body.mask, ace.type), format_guid(body.object_type),
                         format_guid(body.inherited), format_sid(sid.sid)>> \o payload, ";"), TRUE)
FormatBody(code, ace, body) ==
  LET from(sid) == FormatFields(code, ace, body, sid, format_payload(ace.type, Rest(body.tail, sid.used)))
  IN  IF code = NoCode \/ body.tail = Bad THEN NoText ELSE from(SidParse(body.tail))
format_ace(ace) == FormatBody(ace_code_from_type(ace.type), ace, decode_ace_body(ace))

\* format_acl_body: acl is <<>> for a NULL ACL.
format_acl_body(acl, kind, control) ==
  LET flags == SelectSeq(AclFlags[kind], LAMBDA f : f[2] \in control)
      prefix == [i \in DOMAIN flags |-> T(flags[i][1])]
      texts(aces) == [i \in DOMAIN aces |-> IF aces[i] = BadAce THEN NoText ELSE format_ace(aces[i])]
      all(ts) == IF NoText \in ToSet(ts) THEN NoText ELSE prefix \o Concat(ts)
  IN  IF acl = <<>> THEN Append(prefix, T(NULL_ACL)) ELSE all(texts(Aces(acl)))

\* Mutant: a NULL ACL is left out whatever its flags.
push_acl_section_elides(acl, kind, control) ==
  IF acl = <<>> THEN <<>> ELSE <<T(AclHeader[kind])>> \o format_acl_body(acl, kind, control)

push_acl_section(acl, kind, control) ==
  LET section(body) == IF acl = <<>> /\ body = <<T(NULL_ACL)>> THEN <<>> ELSE <<T(AclHeader[kind])>> \o body
  IN  section(format_acl_body(acl, kind, control))

format(buf) ==
  LET sid(header, s) == IF s = <<>> THEN <<>> ELSE <<T(header)>> \o format_sid(s)
      section(acls) == [kind \in DOMAIN acls |-> push_acl_section(acls[kind], kind, SdControl(buf))]
      all(sections) == sid("O:", owner_ref(buf)) \o sid("G:", group_ref(buf)) \o sections["dacl"] \o sections["sacl"]
      from(acls) == IF Bad \in {acls["dacl"], acls["sacl"]} THEN NoText ELSE all(section(acls))
      done(out) == IF NoText[1] \in ToSet(out) THEN NoText
                   ELSE IF out = <<>> THEN <<T("D:"), T(NULL_ACL)>> ELSE out
  IN  IF \/ (DACL_PRESENT \in SdControl(buf)) # (DaclOff(buf) # 0)
         \/ (SACL_PRESENT \in SdControl(buf)) # (SaclOff(buf) # 0)
      THEN NoText
      ELSE done(from([dacl |-> dacl(buf), sacl |-> sacl(buf)]))

-----------------------------------------------------------------------------
(* The calls of sddl_ffi.rs. *)

\* A C string ends at its first NUL.
cstr_bytes(s) == LET nul == Find(s, 1, "NUL") IN IF nul = 0 THEN s ELSE SubSeq(s, 1, nul - 1)

peios_sddl_parse_sd(s) ==
  LET built(sd) == IF sd = NoSd THEN Bad ELSE SdBuild(sd)
  IN  IF Len(cstr_bytes(s)) > MAX_SDDL_TEXT THEN Bad ELSE built(parse(cstr_bytes(s)))
peios_sddl_format_sd(buf) == IF Len(buf) < 20 THEN NoText ELSE format(buf)
peios_sddl_parse_condition(s) ==
  LET built(c) == IF c = NoCond THEN Bad ELSE encode(c)
  IN  IF Len(cstr_bytes(s)) > MAX_SDDL_TEXT THEN Bad ELSE built(parse_condition(cstr_bytes(s)))
peios_sddl_format_condition(buf) ==
  LET c == decode_artx(buf) IN IF c = NoCond THEN NoText ELSE format_condition(c)
=============================================================================

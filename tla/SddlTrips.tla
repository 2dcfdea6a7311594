------------------------------ MODULE SddlTrips ------------------------------
(***************************************************************************)
(* A program that holds a descriptor or a condition as SDDL text or as     *)
(* bytes and converts it back and forth with the calls of                  *)
(* security/sddl_ffi.rs.  It starts from a text that spells something in   *)
(* one of the ways the grammar allows, possibly with a token of it edited, *)
(* or from bytes of some other origin.                                     *)
(***************************************************************************)
EXTENDS Sddl

CONSTANTS
  Meanings,     \* what may be spelled: [sd, cond] records, one half of them blank
  Held,         \* bytes of other origin: <<kind, bytes>>
  MaxEdits,     \* bound: tokens of the first text that are edited
  MaxEditLen    \* bound: tokens of a text that is edited

VARIABLES
  kind,         \* "sd" or "cond": which pair of calls
  want,         \* what the first text spells, Blank where bytes came first
  edits,        \* how many tokens of the first text were edited
  formatted,    \* whether the text was written from the bytes
  text, bytes,  \* the last text and the last bytes
  has           \* which of them is the newer, or "refused"

vars == <<kind, want, edits, formatted, text, bytes, has>>

NoMeaning == [owner |-> <<>>, group |-> <<>>, flags |-> {}, dacl |-> {}, sacl |-> {}]
Blank == [sd |-> NoMeaning, cond |-> NoCond]

-----------------------------------------------------------------------------
(* The ways to spell what is meant. *)

Style(sid, mask, parens, order) == [sid |-> sid, mask |-> mask, parens |-> parens, order |-> order]
Usual == <<"O:", "G:", "D:", "S:">>
Styles ==
  {Style("alias", "codes", "few", Usual), Style("literal", "hex", "all", Reverse(Usual)),
   Style("alias", "tail", "twice", <<"D:", "O:", "S:", "G:">>),
   Style("literal", "decimal", "few", <<"G:", "S:", "O:", "D:">>)}

SidText(sid, style) == IF style.sid = "alias" THEN format_sid(sid) ELSE <<Lit("S-", sid)>>

\* A code for some of the bits, then the others as a number.
MaskText(mask, style) ==
  LET codes == {i \in DOMAIN RIGHTS_PARSE : RIGHTS_PARSE[i][2] \subseteq mask}
      some == RIGHTS_PARSE[Max(codes)]
      rest == mask \ some[2]
  IN  CASE mask = {} -> <<>>
        [] style.mask = "decimal" -> <<Lit("dec", AsSeq(mask))>>
        [] style.mask = "hex" \/ codes = {} -> <<Lit("0x", AsSeq(mask))>>
        [] style.mask = "tail" /\ rest # {} -> <<T(some[1]), Lit("0x", AsSeq(rest))>>
        [] OTHER -> Concat([b \in 1..Cardinality(codes) |->
                              <<T(RIGHTS_PARSE[AsSeq(codes)[b]][1])>>])
                      \o (IF UNION {RIGHTS_PARSE[i][2] : i \in codes} = mask THEN <<>>
                          ELSE <<Lit("0x", AsSeq(mask))>>)

Binds == "Or" :> 1 @@ "And" :> 2 @@ "Not" :> 3

\* Parentheses around every part, or only where a part binds no tighter.
RECURSIVE Spell(_, _)
Spell(c, style) ==
  LET part(i) ==
        LET loose == /\ c.kids[i].op \in DOMAIN Binds
                     /\ IF i = 1 THEN Binds[c.kids[i].op] < Binds[c.op]
                        ELSE Binds[c.kids[i].op] <= Binds[c.op]
        IN  Wrapped(Spell(c.kids[i], style), style.parens # "few" \/ loose)
      symbol == IF c.op = "And" THEN "&&" ELSE "||"
  IN  IF c.op = "Not" THEN <<T("!")>> \o part(1)
      ELSE IF c.op \in DOMAIN Binds THEN part(1) \o <<T(symbol)>> \o part(2)
      ELSE format_condition(c)
SpellCond(c, style) ==
  LET inner == Wrapped(Spell(c, style), style.parens = "twice")
  IN  Wrapped(inner, style.parens = "twice")

AceText(a, style) ==
  LET flags == Reverse(AsSeq(a.flags))
      code(f) == ACE_FLAG_CODES[CHOOSE i \in DOMAIN ACE_FLAG_CODES : ACE_FLAG_CODES[i][2] = f][1]
      fields == << <<T(ace_code_from_type(a.type))>>, [i \in DOMAIN flags |-> T(code(flags[i]))],
                   MaskText(a.mask, style), format_guid(a.object_type), format_guid(a.inherited),
                   SidText(a.sid, style)>>
      payload == IF a.claim # NoClaim THEN <<ClaimText(a.claim)>>
                 ELSE IF a.condition # NoCond THEN <<Wrapped(SpellCond(a.condition, style), TRUE)>>
                 ELSE <<>>
  IN  Wrapped(Joined(fields \o payload, ";"), TRUE)

AclText(acl, kind_of, flags, style) ==
  LET present == SelectSeq(Reverse(AclFlags[kind_of]), LAMBDA f : f[2] \in flags)
      aces == The(acl)
  IN  [i \in DOMAIN present |-> T(present[i][1])]
        \o (IF acl = {} THEN <<T(NULL_ACL)>>
            ELSE Concat([i \in DOMAIN aces |-> AceText(aces[i], style)]))

FlagBits(kind_of) == {AclFlags[kind_of][i][2] : i \in DOMAIN AclFlags[kind_of]}

SdText(m, style) ==
  LET list(header, acl, kind_of) ==
        IF acl = {} /\ m.flags \cap FlagBits(kind_of) = {} THEN <<>>
        ELSE <<T(header)>> \o AclText(acl, kind_of, m.flags, style)
      section == [h \in {"O:", "G:", "D:", "S:"} |->
        CASE h = "O:" -> IF m.owner = <<>> THEN <<>> ELSE <<T(h)>> \o SidText(m.owner, style)
          [] h = "G:" -> IF m.group = <<>> THEN <<>> ELSE <<T(h)>> \o SidText(m.group, style)
          [] h = "D:" -> list(h, m.dacl, "dacl")
          [] OTHER -> list(h, m.sacl, "sacl")]
      all == Concat([i \in 1..4 |-> section[style.order[i]]])
  IN  IF all = <<>> THEN <<T("S:"), T(NULL_ACL)>> ELSE all

-----------------------------------------------------------------------------
(* What bytes mean.  A chain of && or of || means the same however it nests. *)

\* The authority of a SID has 48 bits.
KeptSid(sid) == IF sid = <<>> THEN <<>> ELSE [sid EXCEPT ![2] = @ % (U48Max + 1)]
RECURSIVE KeptOperand(_)
KeptOperand(o) ==
  [o EXCEPT !.v = IF o.k = "Sid" THEN KeptSid(@) ELSE @,
            !.items = [i \in DOMAIN @ |-> KeptOperand(@[i])]]

RECURSIVE Flat(_)
Flat(c) ==
  LET kids == [i \in DOMAIN c.kids |-> Flat(c.kids[i])]
      same(i) == c.op \in {"And", "Or"} /\ kids[i].op = c.op
  IN  [op |-> c.op, args |-> [i \in DOMAIN c.args |-> KeptOperand(c.args[i])],
       kids |-> Concat([i \in DOMAIN kids |-> IF same(i) THEN kids[i].kids ELSE <<kids[i]>>])]

\* What an ACE says, read from its bytes.
AceMeaning(ace) ==
  LET behind(body, sid, after) ==
        [type |-> ace.type, flags |-> ace.flags, mask |-> body.mask,
         object_type |-> body.object_type, inherited |-> body.inherited, sid |-> sid.sid,
         condition |-> IF is_callback_ace(ace.type) THEN Flat(decode_artx(after)) ELSE NoCond,
         claim |-> IF ace.type = ACE_TYPE_CODES["RA"] THEN decode_claim_entry(after) ELSE NoClaim]
      from(body, sid) == behind(body, sid, Rest(body.tail, sid.used))
      of(body) == from(body, SidParse(body.tail))
  IN  of(decode_ace_body(ace))

AclMeaning(acl) ==
  LET meaning(aces) == [i \in DOMAIN aces |-> AceMeaning(aces[i])]
  IN  IF acl = <<>> THEN {} ELSE {meaning(Aces(acl))}

SdMeaning(buf, lists) ==
  [owner |-> owner_ref(buf), group |-> group_ref(buf),
   flags |-> SdControl(buf) \cap (FlagBits("dacl") \cup FlagBits("sacl")),
   dacl |-> lists["dacl"], sacl |-> lists["sacl"]]

Meaning(k, buf) ==
  IF k = "cond" THEN [Blank EXCEPT !.cond = Flat(decode_artx(buf))]
  ELSE [Blank EXCEPT !.sd =
          SdMeaning(buf, [list \in {"dacl", "sacl"} |->
                            AclMeaning(IF list = "dacl" THEN dacl(buf) ELSE sacl(buf))])]

\* The same thing with its SIDs and conditions in the form Meaning gives them.
Normal(m) ==
  LET ace(a) == [a EXCEPT !.sid = KeptSid(@), !.condition = Flat(@),
                          !.claim.values = [i \in DOMAIN @ |-> KeptOperand(@[i])]]
      list(acl) == {[i \in DOMAIN aces |-> ace(aces[i])] : aces \in acl}
  IN  [sd |-> [m.sd EXCEPT !.owner = KeptSid(@), !.group = KeptSid(@), !.dacl = list(@), !.sacl = list(@)],
       cond |-> Flat(m.cond)]

-----------------------------------------------------------------------------
(* The trips. *)

ParseCall(k, s) == IF k = "sd" THEN peios_sddl_parse_sd(s) ELSE peios_sddl_parse_condition(s)
FormatCall(k, b) == IF k = "sd" THEN peios_sddl_format_sd(b) ELSE peios_sddl_format_condition(b)

SpelledBy(m, style) ==
  IF m.cond = NoCond THEN SdText(m.sd, style) ELSE SpellCond(m.cond, style)

Init ==
  /\ edits = 0 /\ formatted = FALSE
  /\ \/ \E m \in Meanings, style \in Styles :
          /\ want = m /\ text = SpelledBy(m, style) /\ bytes = <<>> /\ has = "text"
          /\ kind = IF m.cond = NoCond THEN "sd" ELSE "cond"
     \/ \E h \in Held :
          kind = h[1] /\ want = Blank /\ text = <<>> /\ bytes = h[2] /\ has = "bytes"

\* Tokens that stay a token when their neighbours change, outside quotation marks.
Editable(i) ==
  /\ text[i].t \notin {"\"", ",", "int", "dec", "0x", "#"}
  /\ Lookup(COMPARE_OPS, text[i].t) = {} /\ Lookup(ATTR_KEYWORDS, text[i].t) = {}
  /\ Cardinality({j \in 1..i : text[j].t = "\""}) % 2 = 0

\* A token is left out, doubled, or a header is another letter.
Edit ==
  /\ edits < MaxEdits /\ Len(text) <= MaxEditLen /\ has = "text" /\ ~formatted /\ want # Blank
  /\ \E i \in DOMAIN text :
       /\ Editable(i)
       /\ \E put \in {<<>>, <<text[i], text[i]>>} \cup
                     (IF text[i].t \in SectionHeaders THEN {<<T("X:")>>} ELSE {}) :
            text' = SubSeq(text, 1, i - 1) \o put \o SubSeq(text, i + 1, Len(text))
  /\ edits' = edits + 1
  /\ UNCHANGED <<kind, want, formatted, bytes, has>>

Parse ==
  /\ has = "text"
  /\ \E made \in {ParseCall(kind, text)} :
         IF made = Bad THEN has' = "refused" /\ UNCHANGED bytes ELSE has' = "bytes" /\ bytes' = made
  /\ UNCHANGED <<kind, want, edits, formatted, text>>

Format ==
  /\ has = "bytes"
  /\ \E made \in {FormatCall(kind, bytes)} :
         IF made = NoText THEN has' = "refused" /\ UNCHANGED <<text, formatted>>
         ELSE has' = "text" /\ text' = made /\ formatted' = TRUE
  /\ UNCHANGED <<kind, want, edits, bytes>>

Next == Edit \/ Parse \/ Format

Spec == Init /\ [][Next]_vars

-----------------------------------------------------------------------------
(* Properties. *)

\* An ACL of the descriptor is longer than its u16 can say.
AceSize(a) ==
  Aligned(4 + IF a.claim # NoClaim THEN Len(mask_sid_body({}, Everyone) \o claim_encode(a.claim))
              ELSE Len(BodyOf(a.type, a.mask, a.object_type, a.inherited, a.sid, a.condition)))
TooLarge(m) ==
  \E acl \in m.dacl \cup m.sacl :
    8 + Len(Concat([i \in DOMAIN acl |-> Zeros(AceSize(acl[i]))])) > U16Max

\* Every operand of what is meant, its SIDs and the texts of its claims among them.
RECURSIVE Members(_), OperandsOf(_)
Members(o) == {o} \cup UNION {Members(o.items[i]) : i \in DOMAIN o.items}
OperandsOf(c) ==
  UNION ({Members(c.args[i]) : i \in DOMAIN c.args} \cup {OperandsOf(c.kids[i]) : i \in DOMAIN c.kids})
Parts(m) ==
  LET ofAce(a) == {Operand("Sid", a.sid), Operand("String", a.claim.name)}
                    \cup ToSet(a.claim.values) \cup OperandsOf(a.condition)
      aces == UNION {ToSet(acl) : acl \in m.sd.dacl \cup m.sd.sacl}
  IN  {Operand("Sid", m.sd.owner), Operand("Sid", m.sd.group)} \cup OperandsOf(m.cond)
        \cup UNION {ofAce(a) : a \in aces}
Strings(m) == {o.v : o \in {p \in Parts(m) : p.k \in {"Str", "String"}}}
SidsOf(m) == {o.v : o \in {p \in Parts(m) : p.k = "Sid"}} \ {<<>>}

\* No SID has more sub-authorities than its count byte says.
Countable(m) == \A sid \in SidsOf(m) : Len(sid) - 2 <= U8Max

\* Every parenthesis in a string is matched in that string.
Balanced(units) ==
  LET depth == Depth(Chars(units))
  IN  depth[Len(units)] = 0 /\ \A i \in DOMAIN units : depth[i] >= 0

\* What a text may be refused for: a string whose parentheses are not balanced in it, as
\* they are counted with those around it; i64::MIN, whose magnitude is no i64; a SID
\* with a number that its type cannot hold.
Unspeakable(m) ==
  \/ \E units \in Strings(m) : ~Balanced(units)
  \/ \E o \in Parts(m) : o.k \in {"Int", "Int64"} /\ o.v[1] < -IntMax
  \/ \E sid \in SidsOf(m) : parse_sid_literal(sid) = <<>>

\* What a text keeps: strings without a quotation mark or a NUL, and the names of
\* attributes that the parser takes for names.  All are written as they are.
Writable(m) ==
  /\ \A units \in Strings(m) : ToSet(units) \cap {34, 0} = {}
  /\ \A o \in Parts(m) : o.k \in ATTRIBUTES => o.v # <<>> /\ ToSet(o.v) \subseteq is_ident_continue

FirstParse == want # Blank /\ edits = 0 /\ ~formatted

\* grammar::parse and cond::parse: however a descriptor or a condition is spelled
\* (order of the sections, aliases or literals, codes, numbers or both, parentheses),
\* the bytes that are built read back as what was spelled, a SID with the low 48 bits
\* of its authority.  No spelling is refused but one that is too long, of an ACL too
\* large for its size field, or of something that a text may be refused for.
MeaningKept ==
  FirstParse =>
    /\ has = "bytes" /\ Countable(want) => Meaning(kind, bytes) = Normal(want)
    /\ has = "refused" /\ bytes = <<>> =>
         Len(text) > MAX_SDDL_TEXT \/ Unspeakable(want) \/ (kind = "sd" /\ TooLarge(want.sd))

\* grammar::format and cond::format after grammar::parse and cond::parse: bytes that
\* came from a text, edited or not, are written as a text again; and that text is
\* accepted unless it is too long or has a string with a parenthesis of its own.  A
\* text written for any bytes, when it is accepted, means what they do, unless they
\* hold a quotation mark, a NUL or a name that is none, which are written as they are.
Settled ==
  [][/\ has = "text" /\ has' # "text" /\ formatted =>
          LET said == Meaning(kind, bytes)
          IN  IF has' = "refused"
              THEN want = Blank \/ Len(text) > MAX_SDDL_TEXT \/ Unspeakable(said)
              ELSE Writable(said) => Meaning(kind, bytes') = said
     /\ has = "bytes" /\ want # Blank /\ Countable(want) => has' = "text"]_vars

\* What bytecode says: its tokens and their data in order, without what the decoder
\* skips, which is the padding, the lengths, the sign and base bytes of an integer
\* and what is behind the SID of a SID literal.
RECURSIVE Essence(_, _)
Essence(b, pos) ==
  LET len == At(b, pos, 4)
      data == SubSeq(b, pos + 5, pos + 4 + len)
      then(said, next) == said \o Essence(b, next)
  IN  IF pos > Len(b) THEN <<>>
      ELSE CASE b[pos] = 0 -> Essence(b, pos + 1)
             [] b[pos] = TOK.Int -> then(SubSeq(b, pos, pos + 8), pos + 11)
             [] b[pos] = TOK.Sid -> then(<<TOK.Sid>> \o SubSeq(data, 1, 8 + 4 * data[2]), pos + 5 + len)
             [] b[pos] = TOK.Composite -> then(<<TOK.Composite>> \o Essence(data, 1) \o <<0>>, pos + 5 + len)
             [] b[pos] \in DOMAIN operand_from_byte -> then(<<b[pos]>> \o data, pos + 5 + len)
             [] OTHER -> then(<<b[pos]>>, pos + 1)

\* cond::decode_artx: bytecode is accepted only where all that it says, each operand,
\* test and connective in its order and nothing beside them, is what Condition::encode
\* writes for the condition it is read as.
DecodeExact ==
  LET c == decode_artx(bytes)
  IN  kind = "cond" /\ has = "bytes" /\ want = Blank /\ c # NoCond =>
        Essence(encode(c), 5) = Essence(bytes, 5)

\* cond::parse, "The input may be wrapped in a single outer pair of parentheses (as it
\* appears inside an ACE) or not — both are accepted."
WrappedOrNot ==
  kind = "cond" /\ has = "text" /\ edits = 0 =>
    (parse_condition(text) # NoCond <=> parse_condition(Wrapped(text, TRUE)) # NoCond)
=============================================================================

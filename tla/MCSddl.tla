------------------------------- MODULE MCSddl -------------------------------
(***************************************************************************)
(* Descriptors with one ACE of every shape, with two ACEs and with NULL    *)
(* and empty ACLs; conditions nested two deep; bytecode of up to MaxChunks *)
(* chunks; descriptors that no text spells.                                *)
(***************************************************************************)
EXTENDS SddlTrips

CONSTANTS
  StringsUsed,  \* the string literals of the conditions
  LongestSid,   \* sub-authorities of the longest SID
  MaxChunks     \* bound: chunks of a bytecode program

MCStrings == {<<97>>, <<40, 97, 41>>, <<59>>, <<44>>, <<40>>, <<41>>}
MCStringsOpen == {<<97>>, <<40>>}

User == Operand("User", <<97>>)
One == Operand("Int", <<1>>)
Minus == Operand("Int", <<-3>>)
Lowest == Operand("Int", <<-IntMax - 1>>)
System == <<1, 5, 18>>
Str(s) == Operand("Str", s)
Custom == <<1, 5>> \o [i \in 1..LongestSid |-> 20 + i]

\* An authority of more than 48 bits, another revision, numbers too wide, and more
\* sub-authorities than a byte counts.
WideSid == <<1, U48Max + 1 + 5, 18>>
OddSids == {WideSid, <<2, U48Max, U32Max>>, <<U8Max + 1, 5, 18>>, <<1, U64Max + 1>>, <<1, 5, U32Max + 1>>,
            <<1, 5>>, Custom \o Custom}

Tests ==
  {Test("Eq", <<User, Str(s)>>) : s \in StringsUsed}
  \cup {Test("Lt", <<Operand("Device", <<97>>), n>>) : n \in {Minus, Lowest}}
  \cup {Test("Exists", <<User>>),
        Test("MemberOfAny", <<Composite(<<Operand("Sid", WideSid), Operand("Sid", Custom)>>)>>),
        Test("AnyOf", <<Operand("Octet", <<7, 9>>), Composite(<<One, Str(<<97>>), Composite(<<>>)>>)>>)}
Pairs(cs, ds) == {Logic(op, <<c, d>>) : op \in {"And", "Or"}, c \in cs, d \in ds}
Few == {Test("Exists", <<User>>), Test("Ne", <<User, One>>)}
Conditions1 == Tests \cup Pairs(Tests, Few) \cup {Logic("Not", <<c>>) : c \in Tests \cup Pairs(Few, Few)}
Shallow == Pairs({Test("Exists", <<User>>)}, {Test("Ne", <<User, One>>)})
OpenFirst(c, d) == Logic("And", <<Logic("Or", <<Test("Eq", <<User, Str(<<40>>)>>), c>>), Logic("Or", <<c, d>>)>>)
Conditions2 ==
  {OpenFirst(Test("Exists", <<User>>), Test("Ne", <<User, One>>))} \cup
  Pairs(Shallow, Shallow) \cup Pairs(Shallow, Tests) \cup Pairs(Few, Shallow)
  \cup {Logic("Not", <<Logic("Not", <<c>>)>>) : c \in Shallow}

Ace(type, flags, mask, sid) ==
  [type |-> ACE_TYPE_CODES[type], flags |-> flags, mask |-> mask, object_type |-> NoGuid,
   inherited |-> NoGuid, sid |-> sid, condition |-> NoCond, claim |-> NoClaim]
Obj(type, object_type, inherited) ==
  [Ace(type, {2}, {4, 30}, System) EXCEPT !.object_type = object_type, !.inherited = inherited]
When(ace, c) == [ace EXCEPT !.condition = c]
Attr(values) ==
  [Ace("RA", {1}, {}, Everyone) EXCEPT
     !.claim = [name |-> <<97, 59>>, flags |-> 2, values |-> values]]

Value(k, v) == Operand(k, v)
Shapes ==
  {Ace("A", {1, 2}, {0, 3, 7, 17, 20}, System), Ace("D", {16}, {9, 31}, Custom),
   Ace("AU", {64, 128}, {16, 17}, Everyone), Ace("ML", {}, {0, 2}, <<1, 16, 8192>>),
   Ace("SP", {4}, {}, Everyone), Ace("AL", {}, 0..5 \cup 16..19, Everyone), Ace("TL", {8}, {3, 4, 28}, Custom)}
  \cup {Obj("OA", g, h) : g \in {NoGuid, 11}, h \in {NoGuid, 22}}
  \cup {Obj("OD", 11, NoGuid), Obj("OU", NoGuid, 22), Obj("OL", 11, 22)}
  \cup {When(Ace(t, {}, {30}, System), c) : t \in {"XA", "XD", "XU", "XL", "FL"}, c \in Few}
  \cup {When(Ace("XA", {}, {30}, System), c) : c \in Tests}
  \cup {When(Obj(t, 11, NoGuid), c) : t \in {"ZA", "ZD", "ZU", "ZL"}, c \in Few}
  \cup {Attr(vs) : vs \in {<<Value("Int64", <<-3>>), Value("Int64", <<IntMax>>)>>,
                          <<Value("UInt64", <<2 * IntMax + 1>>)>>,
                          <<Value("String", <<97, 44>>), Value("String", <<>>), Value("String", <<97>>)>>,
                          <<Value("String", <<41>>)>>, <<Value("Int64", <<-IntMax - 1>>)>>,
                          <<Value("Sid", WideSid), Value("Sid", Everyone)>>,
                          <<Value("Boolean", <<1>>), Value("Boolean", <<0>>)>>,
                          <<Value("Octet", <<>>), Value("Octet", <<7, 9>>)>>}}

Sd(owner, group, flags, d, s) ==
  [Blank EXCEPT !.sd = [owner |-> owner, group |-> group, flags |-> flags, dacl |-> d, sacl |-> s]]
OneAce == Ace("A", {}, {28}, Everyone)
MCMeanings ==
  {Sd(<<>>, <<>>, {}, {<<a>>}, {}) : a \in Shapes}
  \cup {Sd(System, <<>>, {SACL_PROTECTED}, {<<OneAce, a>>}, {<<a>>}) :
          a \in {Obj("OA", 11, 22), Attr(<<Value("Boolean", <<1>>)>>), Ace("ML", {}, {0, 2}, <<1, 16, 8192>>)}}
  \cup {Sd(o, g, f, d, s) : o \in {<<>>, Custom}, g \in {<<>>, Everyone},
          f \in {{}, {DACL_PROTECTED, SACL_AUTO_INHERITED}, {DACL_AUTO_INHERIT_REQ, DACL_AUTO_INHERITED}},
          d \in {{}, {<<>>}, {<<OneAce>>}}, s \in {{}, {<<>>}}}
  \cup {Sd(o, <<>>, {}, {<<OneAce>>}, {}) : o \in OddSids}
  \cup {Sd(<<>>, <<>>, {}, {<<a, a, When(Ace("XA", {}, {30}, System), c)>>}, {}) :
          a \in {Ace("D", {16}, {9, 31}, Custom)}, c \in Shallow}
  \cup {Sd(<<>>, <<>>, {}, {<<a>>}, {}) :
          a \in {When(Ace("XA", {}, {30}, sid), Test("Exists", <<User>>)) : sid \in OddSids}}
  \cup {[Blank EXCEPT !.cond = c] : c \in Conditions1 \cup Conditions2}

Chunks ==
  {emit_operand(One), emit_operand(User), emit_operand(Composite(<<One, Str(<<97>>)>>))}
  \cup {<<byte_code[op]>> : op \in {"Eq", "Exists", "MemberOf", "And", "Not"}}
\* An integer with another sign and base, a SID with a byte behind it, and what is not
\* accepted at all.
OddChunks ==
  {<<TOK.Int>> \o Word(1, 8) \o <<9, 9>>, <<TOK.Sid>> \o emit_len_prefixed(SidEncode(Everyone) \o <<9>>)}
BadChunks ==
  {<<TOK.Composite>> \o emit_len_prefixed(emit_operand(User)), <<TOK.Str>> \o Word(9, 4), <<0>>, <<99>>}
Programs ==
  {ArtxMagic \o Concat(p) :
     p \in [1..MaxChunks -> Chunks] \cup UNION {[1..n -> Chunks \cup OddChunks \cup BadChunks] : n \in 1..(MaxChunks - 1)}}

\* Conditions that no text spells: quotation marks, parentheses and a NUL in strings,
\* names that are none, i64::MIN.
Unspelled ==
  {Test("Eq", <<User, Str(s)>>) : s \in {<<34>>, <<97, 34>>, <<97, 0>>, <<40>>, <<41, 40>>}}
  \cup {Test("Eq", <<User, Composite(<<Str(<<34, 44, 34>>), o>>)>>) : o \in {One, Str(<<40>>)}}
  \cup {Test("Exists", <<Operand("User", name)>>) : name \in {<<>>, <<97, 97>>, <<97, 41>>, <<34>>, <<97, 0>>}}
  \cup {Test("Eq", <<User, o>>) : o \in {Lowest, Operand("Octet", <<>>), Operand("Sid", <<2, 5>>)}}

\* Descriptors with an ACE no text spells: a type with no code, a stray flag, a SID cut short.
Raws ==
  {[type |-> 4, flags |-> {}, body |-> mask_sid_body({1}, Everyone)],
   [type |-> 0, flags |-> {1, 32}, body |-> mask_sid_body({1}, Everyone)],
   [type |-> 0, flags |-> {1}, body |-> MaskBytes({1})],
   [type |-> 9, flags |-> {}, body |-> mask_sid_body({1}, Everyone)],
   [type |-> 5, flags |-> {}, body |-> MaskBytes({1}) \o Word(3, 4) \o Guid(11)],
   [type |-> 18, flags |-> {}, body |-> mask_sid_body({}, Everyone) \o Zeros(20)],
   [type |-> 0, flags |-> {}, body |-> mask_sid_body({1}, <<3, U48Max, U32Max>>)]}
  \cup {[type |-> 18, flags |-> {}, body |-> mask_sid_body({}, Everyone) \o claim_encode(claim)] :
          claim \in {[name |-> n, flags |-> 0, values |-> <<Value("String", v)>>] :
                       n \in {<<97>>, <<34>>}, v \in {<<97>>, <<34, 44, 34>>, <<40>>}}}
MCHeld ==
  {<<"cond", p>> : p \in Programs \cup {encode(c) : c \in Unspelled}}
  \cup {<<"sd", SdBuild([NewSd EXCEPT !.dacl = {<<raw>>}, !.sacl = acl])>> : raw \in Raws, acl \in {{}, {<<>>}}}
  \cup {<<"sd", SdBuild([NewSd EXCEPT !.owner = Everyone, !.extra_control = f])>> :
          f \in {{}, {DACL_PRESENT}, {SACL_PRESENT, SACL_PROTECTED}}}
=============================================================================

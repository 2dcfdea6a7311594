-------------------------------- MODULE Vocab --------------------------------
(***************************************************************************)
(* The vocabulary of SDDL, security/sddl/grammar/vocab.rs and              *)
(* security/sddl/wellknown.rs.  A text is a sequence of tokens [t, v]: t   *)
(* is the text of a code or of a punctuation mark, v what a literal holds. *)
(* An access mask is the set of its bits, ACE flags are the set of their   *)
(* values, a SID is <<revision, authority, sub-authority, ...>>.           *)
(***************************************************************************)
EXTENDS Integers, Sequences, TLC

CONSTANTS
  U8Max,     \* bound: u8::MAX, 255 in the code
  U32Max,    \* bound: u32::MAX
  U64Max     \* bound: u64::MAX

T(text) == [t |-> text, v |-> <<>>]
Lit(kind, v) == [t |-> kind, v |-> v]

ACE_TYPE_CODES ==
  [A |-> 0, D |-> 1, AU |-> 2, AL |-> 3, OA |-> 5, OD |-> 6, OU |-> 7, OL |-> 8,
   XA |-> 9, XD |-> 10, ZA |-> 11, ZD |-> 12, XU |-> 13, XL |-> 14, ZU |-> 15, ZL |-> 16,
   ML |-> 17, RA |-> 18, SP |-> 19, TL |-> 20, FL |-> 21]

\* What in a table has this value, as a set with at most one member.
NamesOf(table, x) == {name \in DOMAIN table : table[name] = x}

\* A type with no code gives NoCode.
NoCode == "none"
ace_code_from_type(type) ==
  LET code(codes) == IF codes = {} THEN NoCode ELSE CHOOSE c \in codes : TRUE
  IN  code(NamesOf(ACE_TYPE_CODES, type))

is_object_ace(type) == type \in {5, 6, 7, 8, 11, 12, 15, 16}
is_callback_ace(type) == type \in {9, 10, 11, 12, 13, 14, 15, 16, 21}

\* In the order the formatter writes them.
ACE_FLAG_CODES ==
  << <<"CI", 2>>, <<"OI", 1>>, <<"NP", 4>>, <<"IO", 8>>, <<"ID", 16>>, <<"SA", 64>>, <<"FA", 128>> >>

\* Composites first, so that a code of many bits wins over its parts.
RIGHTS_FORMAT ==
  << <<"FA", 0..8 \cup 16..20>>, <<"FR", {0, 3, 7, 17, 20}>>, <<"FW", {1, 2, 4, 8, 17, 20}>>,
     <<"FX", {5, 7, 17, 20}>>, <<"KA", 0..5 \cup 16..19>>, <<"KR", {0, 3, 4, 17}>>,
     <<"KW", {1, 2, 17}>>, <<"GA", {28}>>, <<"GR", {31}>>, <<"GW", {30}>>, <<"GX", {29}>>,
     <<"SD", {16}>>, <<"RC", {17}>>, <<"WD", {18}>>, <<"WO", {19}>> >>

\* Codes the parser takes and the formatter does not write, the same bit having
\* several of them.
ParseOnly ==
  << <<"KX", {0, 3, 4, 17}>>, <<"CC", {0}>>, <<"DC", {1}>>, <<"LC", {2}>>, <<"SW", {3}>>,
     <<"RP", {4}>>, <<"WP", {5}>>, <<"DT", {6}>>, <<"LO", {7}>>, <<"CR", {8}>>,
     <<"NW", {0}>>, <<"NR", {1}>>, <<"NX", {2}>> >>

\* What a table gives a code, as a set with at most one member.
Lookup(table, code) == {table[i][2] : i \in {j \in DOMAIN table : table[j][1] = code}}

RIGHTS_PARSE == RIGHTS_FORMAT \o ParseOnly
LABEL_RIGHTS == << <<"NW", {0}>>, <<"NR", {1}>>, <<"NX", {2}>> >>

Builtin(rid) == <<1, 5, 32, rid>>

\* WellKnownSid::parts.
WellKnown ==
  [Everyone |-> <<1, 1, 0>>, Service |-> <<1, 5, 6>>, Anonymous |-> <<1, 5, 7>>,
   AuthenticatedUsers |-> <<1, 5, 11>>, LocalSystem |-> <<1, 5, 18>>, LocalService |-> <<1, 5, 19>>,
   NetworkService |-> <<1, 5, 20>>, BuiltinAdministrators |-> Builtin(544),
   BuiltinUsers |-> Builtin(545), CreatorOwner |-> <<1, 3, 0>>, CreatorGroup |-> <<1, 3, 1>>,
   LowIl |-> <<1, 16, 4096>>, MediumIl |-> <<1, 16, 8192>>, MediumPlusIl |-> <<1, 16, 8448>>,
   HighIl |-> <<1, 16, 12288>>, SystemIl |-> <<1, 16, 16384>>]
Everyone == WellKnown["Everyone"]

AliasesOver(known) ==
  [WD |-> known["Everyone"], AN |-> known["Anonymous"],
   AU |-> known["AuthenticatedUsers"], IU |-> <<1, 5, 4>>, NU |-> <<1, 5, 2>>,
   SU |-> known["Service"], RC |-> <<1, 5, 12>>, WR |-> <<1, 5, 33>>, PS |-> <<1, 5, 10>>,
   ED |-> <<1, 5, 9>>, CO |-> known["CreatorOwner"], CG |-> known["CreatorGroup"],
   OW |-> <<1, 3, 4>>, AC |-> <<1, 15, 2, 1>>, SY |-> known["LocalSystem"],
   LS |-> known["LocalService"], NS |-> known["NetworkService"],
   LW |-> known["LowIl"], ME |-> known["MediumIl"], MP |-> known["MediumPlusIl"],
   HI |-> known["HighIl"], SI |-> known["SystemIl"],
   BA |-> known["BuiltinAdministrators"], BU |-> known["BuiltinUsers"],
   BG |-> Builtin(546), PU |-> Builtin(547), AO |-> Builtin(548), SO |-> Builtin(549),
   PO |-> Builtin(550), BO |-> Builtin(551), RE |-> Builtin(552), RU |-> Builtin(554),
   RD |-> Builtin(555), NO |-> Builtin(556), MU |-> Builtin(558), LU |-> Builtin(559),
   IS |-> Builtin(568), CY |-> Builtin(569), ER |-> Builtin(573), CD |-> Builtin(574),
   RA |-> Builtin(575), ES |-> Builtin(576), MS |-> Builtin(577), HA |-> Builtin(578),
   AA |-> Builtin(579), RM |-> Builtin(580)]
SID_ALIASES == AliasesOver(WellKnown)
DOMAIN_RELATIVE ==
  {"DA", "DG", "DU", "DD", "DC", "LA", "LG", "SA", "EA", "RO", "CA", "PA", "CN", "RS", "AP",
   "KA", "EK"}

-----------------------------------------------------------------------------
(* References to SIDs: an alias, or Lit("S-", numbers). *)

\* Mutant: a number keeps the bits that its type has.
SidLiteralWraps(parts) ==
  IF Len(parts) < 2 THEN <<>>
  ELSE [i \in DOMAIN parts |->
          parts[i] % (1 + IF i = 1 THEN U8Max ELSE IF i = 2 THEN U64Max ELSE U32Max)]

\* <<>> is a reference that is refused: a number that its type cannot hold, too.
parse_sid_literal(parts) ==
  IF /\ Len(parts) >= 2 /\ parts[1] <= U8Max /\ parts[2] <= U64Max
     /\ \A i \in 3..Len(parts) : parts[i] <= U32Max
  THEN parts ELSE <<>>
SidNamed(aliases, token) ==
  CASE token.t \in DOMAIN_RELATIVE -> <<>>
    [] token.t \in DOMAIN aliases -> aliases[token.t]
    [] token.t = "S-" -> parse_sid_literal(token.v)
    [] OTHER -> <<>>
parse_sid_ref(text) == IF Len(text) # 1 THEN <<>> ELSE SidNamed(SID_ALIASES, text[1])

format_sid(sid) ==
  LET name(names) == IF names = {} THEN Lit("S-", sid) ELSE T(CHOOSE n \in names : TRUE)
  IN  <<name(NamesOf(SID_ALIASES, sid))>>
=============================================================================

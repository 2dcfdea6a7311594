------------------------------ MODULE CondText ------------------------------
(***************************************************************************)
(* Conditional expressions as text: the recursive-descent parser and the   *)
(* formatter of security/sddl/grammar/cond.rs.  A parse gives what it read *)
(* and the position after it, 0 when the text is refused.                  *)
(***************************************************************************)
EXTENDS Condition

\* The characters a string may hold here: a letter, the marks that split a text, the
\* quotation mark and the NUL that ends a C string.
CharText ==
  97 :> "a" @@ 40 :> "(" @@ 41 :> ")" @@ 59 :> ";" @@ 44 :> "," @@ 34 :> "\"" @@ 0 :> "NUL"
Chars(units) == [i \in DOMAIN units |-> T(CharText[units[i]])]
Units(text) ==
  [i \in DOMAIN text |-> CHOOSE u \in DOMAIN CharText : CharText[u] = text[i].t]
Quote == T("\"")
Quoted(units) == <<Quote>> \o Chars(units) \o <<Quote>>

compare_op_text ==
  << <<"Eq", "==">>, <<"Ne", "!=">>, <<"Lt", "<">>, <<"Le", "<=">>, <<"Gt", ">">>, <<"Ge", ">=">>,
     <<"Contains", "Contains">>, <<"AnyOf", "Any_of">>, <<"NotContains", "Not_Contains">>,
     <<"NotAnyOf", "Not_Any_of">> >>
member_op_text ==
  << <<"MemberOf", "Member_of">>, <<"DeviceMemberOf", "Device_Member_of">>,
     <<"MemberOfAny", "Member_of_Any">>, <<"DeviceMemberOfAny", "Device_Member_of_Any">>,
     <<"NotMemberOf", "Not_Member_of">>, <<"NotDeviceMemberOf", "Not_Device_Member_of">>,
     <<"NotMemberOfAny", "Not_Member_of_Any">>,
     <<"NotDeviceMemberOfAny", "Not_Device_Member_of_Any">> >>
exists_text == << <<"Exists", "Exists">>, <<"NotExists", "Not_Exists">> >>
ATTR_PREFIXES ==
  << <<"Local", "@Local.">>, <<"User", "@User.">>, <<"Resource", "@Resource.">>,
     <<"Device", "@Device.">> >>

\* The parser's own tables.
COMPARE_OPS ==
  << <<"==", "Eq">>, <<"!=", "Ne">>, <<"<=", "Le">>, <<">=", "Ge">>, <<"<", "Lt">>, <<">", "Gt">>,
     <<"Contains", "Contains">>, <<"Any_of", "AnyOf">>, <<"Not_Contains", "NotContains">>,
     <<"Not_Any_of", "NotAnyOf">> >>
PREFIX_KEYWORDS ==
  << <<"Exists", "Exists">>, <<"Not_Exists", "NotExists">>,
     <<"Not_Device_Member_of_Any", "NotDeviceMemberOfAny">>,
     <<"Not_Member_of_Any", "NotMemberOfAny">>, <<"Not_Device_Member_of", "NotDeviceMemberOf">>,
     <<"Not_Member_of", "NotMemberOf">>, <<"Device_Member_of_Any", "DeviceMemberOfAny">>,
     <<"Device_Member_of", "DeviceMemberOf">>, <<"Member_of_Any", "MemberOfAny">>,
     <<"Member_of", "MemberOf">> >>
ATTR_KEYWORDS ==
  << <<"@Local.", "Local">>, <<"@User.", "User">>, <<"@Resource.", "Resource">>,
     <<"@Device.", "Device">> >>

The(set) == CHOOSE x \in set : TRUE
Peek(s, p) == IF p <= Len(s) THEN s[p].t ELSE "eof"

\* The first position from p on that holds this token, 0 for none.
Find(s, p, text) ==
  LET at == {q \in p..Len(s) : s[q].t = text} IN IF at = {} THEN 0 ELSE Min(at)

-----------------------------------------------------------------------------
(* Operands. *)

NoOp == [o |-> NoOperand, p |-> 0]
Took(o, p) == [o |-> o, p |-> p]

parse_string_lit(s, p) ==
  LET close == Find(s, p + 1, "\"")
  IN  IF close = 0 THEN NoOp
      ELSE Took(Operand("Str", Units(SubSeq(s, p + 1, close - 1))), close + 1)

\* parse_signed_i64 parses the magnitude as an i64 and negates it.
parse_int_lit(s, p) ==
  LET lit == s[p].v
  IN  IF lit[2] > IntMax THEN NoOp
      ELSE Took(Operand("Int", <<IF lit[1] = 1 THEN -lit[2] ELSE lit[2]>>), p + 1)

parse_octet_lit(s, p) == IF s[p].v = <<>> THEN NoOp ELSE Took(Operand("Octet", s[p].v), p + 1)

parse_sid_lit(s, p) ==
  LET close == Find(s, p + 2, ")")
      sid == parse_sid_ref(SubSeq(s, p + 2, close - 1))
  IN  IF Peek(s, p + 1) # "(" \/ close = 0 THEN NoOp
      ELSE IF sid = <<>> THEN NoOp ELSE Took(Operand("Sid", sid), close + 1)

is_ident_continue == {97}

\* parse_attr_ref and parse_attr_name: the longest name behind the prefix.
parse_attr_ref(k, s, p) ==
  LET name == {CharText[u] : u \in is_ident_continue}
      end == Min({q \in (p + 1)..(Len(s) + 1) : Peek(s, q) \notin name})
  IN  IF end = p + 1 THEN NoOp ELSE Took(Operand(k, Units(SubSeq(s, p + 1, end - 1))), end)

RECURSIVE parse_operand(_, _), parse_composite(_, _, _)
parse_operand(s, p) ==
  LET attr == Lookup(ATTR_KEYWORDS, Peek(s, p))
  IN  CASE Peek(s, p) = "\"" -> parse_string_lit(s, p)
        [] Peek(s, p) = "#" -> parse_octet_lit(s, p)
        [] Peek(s, p) = "{" -> parse_composite(s, p + 1, <<>>)
        [] Peek(s, p) = "int" -> parse_int_lit(s, p)
        [] Peek(s, p) = "SID" -> parse_sid_lit(s, p)
        [] attr # {} -> parse_attr_ref(The(attr), s, p)
        [] OTHER -> NoOp
parse_composite(s, p, items) ==
  IF Peek(s, p) = "}" THEN Took(Composite(items), p + 1)
  ELSE LET r == parse_operand(s, p)
           all == Append(items, r.o)
       IN  CASE r.p # 0 /\ Peek(s, r.p) = "," -> parse_composite(s, r.p + 1, all)
             [] r.p # 0 /\ Peek(s, r.p) = "}" -> Took(Composite(all), r.p + 1)
             [] OTHER -> NoOp

-----------------------------------------------------------------------------
(* Expressions: || binds loosest, then &&, then !. *)

NoParse == [c |-> NoCond, p |-> 0]
Parsed(c, p) == [c |-> c, p |-> p]

\* A test of this operator, once its last operand is there.
Compared(op, args, last) ==
  IF last.p = 0 THEN NoParse ELSE Parsed(Test(op, Append(args, last.o)), last.p)

parse_comparison(s, p) ==
  LET with(lhs, op) == IF lhs.p = 0 \/ op = {} THEN NoParse
                       ELSE Compared(The(op), <<lhs.o>>, parse_operand(s, lhs.p + 1))
      after(lhs) == with(lhs, Lookup(COMPARE_OPS, Peek(s, lhs.p)))
  IN  after(parse_operand(s, p))

\* The parts joined, once the last of them is there; and what is in parentheses.
Joint(op, kids, last) ==
  IF last.p = 0 THEN NoParse ELSE Parsed(Logic(op, Append(kids, last.c)), last.p)
Enclosed(s, e) == IF e.p = 0 \/ Peek(s, e.p) # ")" THEN NoParse ELSE Parsed(e.c, e.p + 1)

RECURSIVE parse_expr(_, _), parse_and(_, _), parse_unary(_, _), parse_primary(_, _),
          or_tail(_, _), and_tail(_, _)
parse_expr(s, p) == or_tail(s, parse_and(s, p))
or_tail(s, lhs) ==
  IF lhs.p = 0 \/ Peek(s, lhs.p) # "||" THEN lhs
  ELSE or_tail(s, Joint("Or", <<lhs.c>>, parse_and(s, lhs.p + 1)))
parse_and(s, p) == and_tail(s, parse_unary(s, p))
and_tail(s, lhs) ==
  IF lhs.p = 0 \/ Peek(s, lhs.p) # "&&" THEN lhs
  ELSE and_tail(s, Joint("And", <<lhs.c>>, parse_unary(s, lhs.p + 1)))
parse_unary(s, p) ==
  IF Peek(s, p) = "!" THEN Joint("Not", <<>>, parse_unary(s, p + 1)) ELSE parse_primary(s, p)
parse_primary(s, p) ==
  LET word == Lookup(PREFIX_KEYWORDS, Peek(s, p))
  IN  CASE Peek(s, p) = "(" -> Enclosed(s, parse_expr(s, p + 1))
        [] word # {} -> Compared(The(word), <<>>, parse_operand(s, p + 1))
        [] OTHER -> parse_comparison(s, p)

\* The depth of parentheses after each token, quotation marks not looked at.
Depth(s) ==
  LET d[i \in 0..Len(s)] ==
        IF i = 0 THEN 0
        ELSE d[i - 1] + (IF s[i].t = "(" THEN 1 ELSE IF s[i].t = ")" THEN -1 ELSE 0)
  IN  d

strip_outer_parens(s) ==
  IF Len(s) >= 2 /\ s[1].t = "(" /\ s[Len(s)].t = ")"
       /\ \A i \in 1..(Len(s) - 1) : ~(s[i].t = ")" /\ Depth(s)[i] = 0)
  THEN SubSeq(s, 2, Len(s) - 1) ELSE s

parse_condition(text) ==
  LET whole(s, r) == IF r.p = Len(s) + 1 THEN r.c ELSE NoCond
      parsed(s) == whole(s, parse_expr(s, 1))
  IN  parsed(strip_outer_parens(text))

-----------------------------------------------------------------------------
(* The formatter. *)

Joined(texts, between) ==
  Concat([i \in DOMAIN texts |-> (IF i = 1 THEN <<>> ELSE <<T(between)>>) \o texts[i]])

RECURSIVE fmt_operand(_)
fmt_operand(o) ==
  CASE o.k = "Int" -> <<Lit("int", IF o.v[1] < 0 THEN <<1, -o.v[1]>> ELSE <<0, o.v[1]>>)>>
    [] o.k = "Str" -> Quoted(o.v)
    [] o.k = "Sid" -> <<T("SID"), T("(")>> \o format_sid(o.v) \o <<T(")")>>
    [] o.k = "Octet" -> <<Lit("#", o.v)>>
    [] o.k = "Composite" ->
         <<T("{")>> \o Joined([i \in DOMAIN o.items |-> fmt_operand(o.items[i])], ",") \o <<T("}")>>
    [] OTHER -> <<T(The(Lookup(ATTR_PREFIXES, o.k)))>> \o Chars(o.v)

Wrapped(text, wrap) == IF wrap THEN <<T("(")>> \o text \o <<T(")")>> ELSE text

RECURSIVE fmt_condition(_, _)
fmt_condition(c, parent_prec) ==
  LET infix(mine, text) ==
        Wrapped(Joined([i \in DOMAIN c.kids |-> fmt_condition(c.kids[i], mine)], text),
                parent_prec > mine)
      word == The(Lookup(member_op_text \o exists_text, c.op))
  IN  CASE c.op = "Or" -> infix(1, "||")
        [] c.op = "And" -> infix(2, "&&")
        [] c.op = "Not" -> <<T("!")>> \o fmt_condition(c.kids[1], 3)
        [] Len(c.args) = 1 -> <<T(word)>> \o fmt_operand(c.args[1])
        [] OTHER -> fmt_operand(c.args[1]) \o <<T(The(Lookup(compare_op_text, c.op)))>>
                      \o fmt_operand(c.args[2])

format_condition(c) == fmt_condition(c, 0)
=============================================================================

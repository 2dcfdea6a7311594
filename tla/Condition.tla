----------------------------- MODULE Condition -----------------------------
(***************************************************************************)
(* Conditional expressions: the tree and its bytecode, "artx"              *)
(* (security/sddl/condition.rs), the bytecode read back and the text       *)
(* parsed and written (security/sddl/grammar/cond.rs).                     *)
(*                                                                         *)
(* An operand is [k, v, items]: its kind, the numbers it holds, and the    *)
(* members of a composite.  A condition is [op, args, kids]: operands for  *)
(* a test, conditions for And, Or and Not.  An integer literal of a text   *)
(* is <<1 if negative, magnitude>>; a string literal is its characters     *)
(* between quotation marks, because what splits a text does not look at    *)
(* the quotation marks.                                                    *)
(***************************************************************************)
EXTENDS SdCodec

CONSTANT IntMax     \* bound: i64::MAX

Operand(k, v) == [k |-> k, v |-> v, items |-> <<>>]
Composite(items) == [k |-> "Composite", v |-> <<>>, items |-> items]
Test(op, args) == [op |-> op, args |-> args, kids |-> <<>>]
Logic(op, kids) == [op |-> op, args |-> <<>>, kids |-> kids]
NoOperand == Operand("none", <<>>)
NoCond == Test("none", <<>>)

-----------------------------------------------------------------------------
(* condition.rs: the bytecode. *)

byte_code ==
  [Eq |-> 128, Ne |-> 129, Lt |-> 130, Le |-> 131, Gt |-> 132, Ge |-> 133, Contains |-> 134,
   AnyOf |-> 136, NotContains |-> 142, NotAnyOf |-> 143,
   MemberOf |-> 137, DeviceMemberOf |-> 138, MemberOfAny |-> 139, DeviceMemberOfAny |-> 140,
   NotMemberOf |-> 144, NotDeviceMemberOf |-> 145, NotMemberOfAny |-> 146,
   NotDeviceMemberOfAny |-> 147,
   Exists |-> 135, NotExists |-> 141, And |-> 160, Or |-> 161, Not |-> 162]

TOK ==
  [Int |-> 4, Str |-> 16, Octet |-> 24, Composite |-> 80, Sid |-> 81,
   Local |-> 248, User |-> 249, Resource |-> 250, Device |-> 251]

ArtxMagic == Word(7, 4)     \* "artx"

emit_len_prefixed(data) == Word(Len(data), 4) \o data
utf16le(units) == Concat([i \in DOMAIN units |-> Word(units[i], 2)])

\* to_le_bytes of an i64, then its sign and its base.
Int64(n) ==
  Word(IF n < 0 THEN n + 2 * (IntMax + 1) ELSE n, 8) \o <<IF n < 0 THEN 2 ELSE 3, 2>>

RECURSIVE emit_operand(_)
emit_operand(o) ==
  <<TOK[o.k]>> \o
  CASE o.k = "Int" -> Int64(o.v[1])
    [] o.k = "Sid" -> emit_len_prefixed(SidEncode(o.v))
    [] o.k = "Octet" -> emit_len_prefixed(o.v)
    [] o.k = "Composite" ->
         emit_len_prefixed(Concat([i \in DOMAIN o.items |-> emit_operand(o.items[i])]))
    [] OTHER -> emit_len_prefixed(utf16le(o.v))

\* Operands and parts first, then what joins them.
RECURSIVE emit_condition(_)
emit_condition(c) ==
  Concat([i \in DOMAIN c.args |-> emit_operand(c.args[i])])
    \o Concat([i \in DOMAIN c.kids |-> emit_condition(c.kids[i])]) \o <<byte_code[c.op]>>

\* Condition::encode.
encode(c) ==
  LET out == ArtxMagic \o emit_condition(c)
  IN  out \o Zeros(Aligned(Len(out)) - Len(out))

-----------------------------------------------------------------------------
(* cond.rs: the bytecode read back.  A read gives what it took and where it *)
(* stopped, at 0 when it failed; a stack holds operands and conditions.     *)

compare_from_byte ==
  128 :> "Eq" @@ 129 :> "Ne" @@ 130 :> "Lt" @@ 131 :> "Le" @@ 132 :> "Gt" @@ 133 :> "Ge"
  @@ 134 :> "Contains" @@ 136 :> "AnyOf" @@ 142 :> "NotContains" @@ 143 :> "NotAnyOf"
member_from_byte ==
  137 :> "MemberOf" @@ 138 :> "DeviceMemberOf" @@ 139 :> "MemberOfAny"
  @@ 140 :> "DeviceMemberOfAny" @@ 144 :> "NotMemberOf" @@ 145 :> "NotDeviceMemberOf"
  @@ 146 :> "NotMemberOfAny" @@ 147 :> "NotDeviceMemberOfAny"
exists_from_byte == 135 :> "Exists" @@ 141 :> "NotExists"
logic_from_byte == 160 :> "And" @@ 161 :> "Or"
TOK_NOT == 162
operand_from_byte ==
  4 :> "Int" @@ 16 :> "Str" @@ 24 :> "Octet" @@ 80 :> "Composite" @@ 81 :> "Sid"
  @@ 248 :> "Local" @@ 249 :> "User" @@ 250 :> "Resource" @@ 251 :> "Device"
ATTRIBUTES == {"Local", "User", "Resource", "Device"}

Failed == [o |-> NoOperand, pos |-> 0]

take_lp_bytes(b, pos) ==
  LET len == At(b, pos - 1, 4)
  IN  IF len < 0 \/ pos + 3 + len > Len(b) THEN [data |-> <<>>, pos |-> 0]
      ELSE [data |-> SubSeq(b, pos + 4, pos + 3 + len), pos |-> pos + 4 + len]

take_int64(b, pos) ==
  LET n == At(b, pos - 1, 8)
  IN  IF n < 0 \/ pos + 9 > Len(b) THEN Failed
      ELSE [o |-> Operand("Int", <<IF n > IntMax THEN n - 2 * (IntMax + 1) ELSE n>>),
            pos |-> pos + 10]

Utf16Units(data) == [i \in 1..(Len(data) \div 2) |-> At(data, 2 * (i - 1), 2)]

\* The operand whose kind byte is before pos; a composite holds no attributes.
RECURSIVE take_operand(_, _, _), decode_composite(_, _, _)
take_operand(kind, b, pos) ==
  LET lp == take_lp_bytes(b, pos)
      of == CASE kind = "Sid" -> Operand("Sid", SidParse(lp.data).sid)
              [] kind = "Octet" -> Operand("Octet", lp.data)
              [] kind = "Composite" -> decode_composite(lp.data, 1, <<>>)
              [] OTHER -> IF Len(lp.data) % 2 = 1 THEN NoOperand
                          ELSE Operand(kind, Utf16Units(lp.data))
  IN  IF kind = "Int" THEN take_int64(b, pos)
      ELSE IF lp.pos = 0 \/ of = NoOperand \/ (kind = "Sid" /\ of.v = <<>>) THEN Failed
      ELSE [o |-> of, pos |-> lp.pos]
decode_composite(b, pos, items) ==
  IF pos > Len(b) THEN Composite(items)
  ELSE IF b[pos] = 0 THEN decode_composite(b, pos + 1, items)
  ELSE IF b[pos] \notin DOMAIN operand_from_byte \/ operand_from_byte[b[pos]] \in ATTRIBUTES
  THEN NoOperand
  ELSE LET r == take_operand(operand_from_byte[b[pos]], b, pos + 1)
       IN  IF r.pos = 0 THEN NoOperand ELSE decode_composite(b, r.pos, Append(items, r.o))

OfOperand(o) == [o |-> o, c |-> NoCond]
OfCondition(c) == [o |-> NoOperand, c |-> c]

\* The top n items of the stack, in the order they were pushed.
Top(stack, n) == SubSeq(stack, Len(stack) - n + 1, Len(stack))
HasOperands(stack, n) == Len(stack) >= n /\ \A i \in 1..n : Top(stack, n)[i].o # NoOperand
HasConditions(stack, n) == Len(stack) >= n /\ \A i \in 1..n : Top(stack, n)[i].c # NoCond
Popped(stack, n) == SubSeq(stack, 1, Len(stack) - n)
Operands(stack, n) == [i \in 1..n |-> Top(stack, n)[i].o]
Conditions(stack, n) == [i \in 1..n |-> Top(stack, n)[i].c]

\* Mutant: what is left below the last condition is forgotten.
FinishedAnyway(stack) == IF stack # <<>> THEN stack[Len(stack)].c ELSE NoCond

\* The one condition a program leaves.
Finished(stack) == IF Len(stack) = 1 THEN stack[1].c ELSE NoCond

\* ArtxDecoder::decode.
RECURSIVE decode(_, _, _)
decode(b, pos, stack) ==
  LET tok == b[pos]
      test(n, op) ==
        IF ~HasOperands(stack, n) THEN NoCond
        ELSE decode(b, pos + 1, Append(Popped(stack, n), OfCondition(Test(op, Operands(stack, n)))))
      logic(n, op) ==
        IF ~HasConditions(stack, n) THEN NoCond
        ELSE decode(b, pos + 1, Append(Popped(stack, n), OfCondition(Logic(op, Conditions(stack, n)))))
  IN  IF pos > Len(b) THEN Finished(stack)
      ELSE CASE tok = 0 -> decode(b, pos + 1, stack)
             [] tok \in DOMAIN operand_from_byte ->
                  LET r == take_operand(operand_from_byte[tok], b, pos + 1)
                  IN  IF r.pos = 0 THEN NoCond ELSE decode(b, r.pos, Append(stack, OfOperand(r.o)))
             [] tok \in DOMAIN compare_from_byte -> test(2, compare_from_byte[tok])
             [] tok \in DOMAIN member_from_byte -> test(1, member_from_byte[tok])
             [] tok \in DOMAIN exists_from_byte -> test(1, exists_from_byte[tok])
             [] tok \in DOMAIN logic_from_byte -> logic(2, logic_from_byte[tok])
             [] tok = TOK_NOT -> logic(1, "Not")
             [] OTHER -> NoCond

decode_artx(b) ==
  IF Len(b) < 4 \/ SubSeq(b, 1, 4) # ArtxMagic THEN NoCond ELSE decode(b, 5, <<>>)
=============================================================================

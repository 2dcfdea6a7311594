------------------------------- MODULE Claim -------------------------------
(***************************************************************************)
(* Resource-attribute claims: the entry a claim is encoded to              *)
(* (security/sddl/claims.rs), and the entry read back, the text parsed and *)
(* written (security/sddl/grammar/mod.rs).  A claim is [name, flags,       *)
(* values]; a value is an operand whose kind is one of ClaimTypes.         *)
(***************************************************************************)
EXTENDS CondText

\* The type codes and the type indicators of a text.
ClaimTypes ==
  << <<"Int64", 1, "TI">>, <<"UInt64", 2, "TU">>, <<"String", 3, "TS">>, <<"Sid", 5, "TD">>,
     <<"Boolean", 6, "TB">>, <<"Octet", 16, "TX">> >>
RowOf(kind) == ClaimTypes[CHOOSE i \in DOMAIN ClaimTypes : ClaimTypes[i][1] = kind]
type_code(kind) == RowOf(kind)[2]
Indicator(kind) == RowOf(kind)[3]
KindsOf(col, x) == {ClaimTypes[i][1] : i \in {j \in DOMAIN ClaimTypes : ClaimTypes[j][col] = x}}

NoClaim == [name |-> <<>>, flags |-> 0, values |-> <<>>]
utf16_cstr_bytes(units) == utf16le(units) \o Word(0, 2)

\* A number is kept in its slot; the slot of any other value points to its data.
Inline(v) == v.k \in {"Int64", "UInt64", "Boolean"}
Data(v) ==
  CASE Inline(v) -> <<>>
    [] v.k = "String" -> utf16_cstr_bytes(v.v)
    [] v.k = "Sid" -> SidEncode(v.v)
    [] OTHER -> Word(Len(v.v), 4) \o v.v

\* Mutant: the data starts one slot early.
DataPlacesEarly(values, from) == Starts([i \in DOMAIN values |-> Data(values[i])], from - 4)

\* Where the data of each value starts, from the end of the slots on.
DataPlaces(values, from) == Starts([i \in DOMAIN values |-> Data(values[i])], from)

\* ClaimAttribute::encode.
claim_encode(claim) ==
  LET n == Len(claim.values)
      prefix == 16 + 4 * n
      name == utf16_cstr_bytes(claim.name)
      width(v) == IF Inline(v) THEN 8 ELSE 4
      slots == Starts([i \in 1..n |-> Zeros(width(claim.values[i]))], prefix + Len(name))
      places == DataPlaces(claim.values, slots[n + 1])
      slot(i) == IF Inline(claim.values[i])
                 THEN Word((claim.values[i].v[1] + 2 * (IntMax + 1)) % (2 * (IntMax + 1)), 8)
                 ELSE Word(places[i], 4)
  IN  IF n = 0 \/ \E i \in 1..n : claim.values[i].k # claim.values[1].k THEN Bad
      ELSE Word(prefix, 4) \o Word(type_code(claim.values[1].k), 2) \o Zeros(2)
             \o Word(claim.flags, 4) \o Word(n, 4) \o Concat([i \in 1..n |-> Word(slots[i], 4)])
             \o name \o Concat([i \in 1..n |-> slot(i)])
             \o Concat([i \in 1..n |-> Data(claim.values[i])])

-----------------------------------------------------------------------------
(* The entry read back. *)

read_utf16_z(b, off) ==
  LET ends == {i \in 0..(Len(b) \div 2) : At(b, off + 2 * i, 2) = 0}
  IN  IF off < 0 \/ ends = {} THEN Bad ELSE [i \in 1..Min(ends) |-> At(b, off + 2 * (i - 1), 2)]

\* The value of a kind whose slot is at off.
ReadValue(b, kind, off) ==
  LET n == At(b, off, 8)
      ptr == At(b, off, 4)
      len == At(b, ptr, 4)
  IN  CASE kind = "Int64" -> <<IF n > IntMax THEN n - 2 * (IntMax + 1) ELSE n>>
        [] kind = "UInt64" -> <<n>>
        [] kind = "Boolean" -> <<IF n # 0 THEN 1 ELSE 0>>
        [] kind = "String" -> read_utf16_z(b, ptr)
        [] kind = "Sid" -> IF ptr < 0 \/ SidParse(Rest(b, ptr)) = NoSid THEN Bad
                           ELSE SidParse(Rest(b, ptr)).sid
        [] OTHER -> IF len < 0 \/ ptr + 4 + len > Len(b) THEN Bad ELSE Slice(b, ptr + 4, len)

decode_claim_entry(b) ==
  LET kind == KindsOf(2, At(b, 4, 2))
      count == At(b, 12, 4)
      name == read_utf16_z(b, At(b, 0, 4))
      values == [i \in 1..count |-> ReadValue(b, The(kind), At(b, 12 + 4 * i, 4))]
  IN  IF Len(b) < 20 \/ 16 + 4 * count > Len(b) THEN NoClaim
      ELSE IF kind = {} \/ name = Bad \/ \E i \in 1..count : values[i] = Bad THEN NoClaim
      ELSE [name |-> name, flags |-> At(b, 8, 4),
            values |-> [i \in 1..count |-> Operand(The(kind), values[i])]]

-----------------------------------------------------------------------------
(* The text. *)

\* A list split at the commas outside quotation marks and nesting.
split_top_level_commas(s) ==
  LET quotes[i \in 0..Len(s)] == IF i = 0 THEN 0 ELSE quotes[i - 1] + (IF s[i].t = "\"" THEN 1 ELSE 0)
      quoted(i) == quotes[i] % 2 = 1
      depth[i \in 0..Len(s)] ==
        IF i = 0 THEN 0
        ELSE depth[i - 1] + (IF quoted(i) THEN 0 ELSE IF s[i].t \in {"(", "{"} THEN 1
                             ELSE IF s[i].t \in {")", "}"} THEN -1 ELSE 0)
      cuts == AsSeq({i \in DOMAIN s : s[i].t = "," /\ ~quoted(i) /\ depth[i] = 0})
      ends == <<0>> \o cuts \o <<Len(s) + 1>>
  IN  [i \in 1..(Len(ends) - 1) |-> SubSeq(s, ends[i] + 1, ends[i + 1] - 1)]

parse_quoted_string(s) ==
  IF Len(s) < 2 THEN Bad
  ELSE IF s[1] # Quote \/ s[Len(s)] # Quote \/ \E i \in 2..(Len(s) - 1) : s[i] = Quote THEN Bad
  ELSE Units(SubSeq(s, 2, Len(s) - 1))

\* parse_signed_i64 and parse_uint; a boolean is 0 or 1.
ParseInt(s, lowest, highest) ==
  IF Len(s) # 1 THEN Bad
  ELSE IF s[1].t # "int" THEN Bad
  ELSE IF s[1].v[2] > highest \/ (s[1].v[1] = 1 /\ lowest = 0) THEN Bad
  ELSE <<IF s[1].v[1] = 1 THEN -s[1].v[2] ELSE s[1].v[2]>>

parse_claim_value(kind, s) ==
  CASE kind = "Int64" -> ParseInt(s, -IntMax, IntMax)
    [] kind = "UInt64" -> ParseInt(s, 0, 2 * IntMax + 1)
    [] kind = "Boolean" -> ParseInt(s, 0, 1)
    [] kind = "String" -> parse_quoted_string(s)
    [] kind = "Sid" ->
         IF Len(s) < 4 THEN Bad
         ELSE IF s[1].t # "SID" \/ s[2].t # "(" \/ s[Len(s)].t # ")" THEN Bad
         ELSE LET sid == parse_sid_ref(SubSeq(s, 3, Len(s) - 1)) IN IF sid = <<>> THEN Bad ELSE sid
    [] OTHER -> IF Len(s) = 1 THEN IF s[1].t = "#" THEN s[1].v ELSE Bad ELSE Bad

parse_claim(s) ==
  LET parts == split_top_level_commas(SubSeq(s, 2, Len(s) - 1))
      kind == IF Len(parts[2]) = 1 THEN KindsOf(3, parts[2][1].t) ELSE {}
      name == parse_quoted_string(parts[1])
      flags == parts[3]
      values == [i \in 1..(Len(parts) - 3) |-> parse_claim_value(The(kind), parts[i + 3])]
  IN  IF Len(s) < 2 THEN NoClaim
      ELSE IF s[1].t # "(" \/ s[Len(s)].t # ")" \/ Len(parts) < 4 THEN NoClaim
      ELSE IF name = Bad \/ kind = {} \/ (flags # <<>> /\ (Len(flags) # 1 \/ flags[1].t # "hex"))
      THEN NoClaim
      ELSE IF \E i \in DOMAIN values : values[i] = Bad THEN NoClaim
      ELSE [name |-> name, flags |-> IF flags = <<>> THEN 0 ELSE flags[1].v[1],
            values |-> [i \in DOMAIN values |-> Operand(The(kind), values[i])]]

ClaimText(claim) ==
  LET value(v) ==
        CASE v.k = "String" -> Quoted(v.v)
          [] v.k = "Sid" -> <<T("SID"), T("(")>> \o format_sid(v.v) \o <<T(")")>>
          [] v.k = "Octet" -> <<Lit("#", v.v)>>
          [] OTHER -> <<Lit("int", IF v.v[1] < 0 THEN <<1, -v.v[1]>> ELSE <<0, v.v[1]>>)>>
      head == <<Quoted(claim.name), <<T(Indicator(claim.values[1].k))>>, <<Lit("hex", <<claim.flags>>)>>>>
  IN  Wrapped(Joined(head \o [i \in DOMAIN claim.values |-> value(claim.values[i])], ","), TRUE)

\* <<>> where the entry does not decode.
format_claim_payload(b) ==
  LET claim == decode_claim_entry(b)
  IN  IF claim = NoClaim \/ claim.values = <<>> THEN <<>> ELSE ClaimText(claim)
=============================================================================

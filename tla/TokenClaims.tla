---------------------------- MODULE TokenClaims ----------------------------
(***************************************************************************)
(* The self-contained encodings of the token builder in                    *)
(* src/token/builder.rs: UTF-16 strings, claim entries and the LCS         *)
(* credentials extension.  <<>> stands for EINVAL.                         *)
(***************************************************************************)
EXTENDS Wire

CONSTANTS
  MaxScopes, MaxLayers, MaxName    \* bounds: the KACS_TOKEN_LCS_MAX_* limits

\* A character is a number: 0 is NUL, Garbled breaks UTF-8, and one from 1000 on
\* takes two UTF-16 units.
Units(ch) == IF ch >= 1000 THEN Word(ch, 2) \o Word(ch, 2) ELSE Word(ch, 2)

utf16le_cstr(s) ==
  IF 0 \in Range(s) \/ Garbled \in Range(s) THEN <<>>
  ELSE Concat([i \in DOMAIN s |-> Units(s[i])]) \o Word(0, 2)

C_INT64 == 1
C_UINT64 == 2
C_STRING == 3
C_SID == 5
C_BOOLEAN == 6
C_OCTET == 16
ClaimTypes == {C_INT64, C_UINT64, C_STRING, C_SID, C_BOOLEAN, C_OCTET}
is_scalar(type) == type \in {C_INT64, C_UINT64, C_BOOLEAN}
slot_size(type) == IF is_scalar(type) THEN 8 ELSE 4

ValueOk(type, v) ==
  CASE type = C_BOOLEAN -> v <= 1
    [] type = C_STRING -> v # NullArg /\ utf16le_cstr(v) # <<>>
    [] type = C_SID -> sid_valid(v)
    [] type = C_OCTET -> v # NullArg
    [] OTHER -> TRUE

\* What a value has in the data region; a scalar is in its slot.
ValueData(type, v) ==
  CASE type = C_STRING -> utf16le_cstr(v)
    [] type = C_SID -> v
    [] type = C_OCTET -> Word(Len(v), 4) \o v
    [] OTHER -> <<>>

\* The text up to the terminator at an offset.
TextAt(b, off) ==
  LET text[p \in Nat] ==
        LET ch == At(b, p, 2)
        IN  IF ch = 0 THEN <<>>
            ELSE IF ch = Garbled \/ (ch >= 1000 /\ At(b, p + 2, 2) # ch) THEN <<Garbled>>
            ELSE <<ch>> \o text[p + Len(Units(ch))]
  IN  text[off]

NoClaim == [type |-> Garbled]

\* kacs_core::parse_claim_attribute_entry.
ClaimParse(b) ==
  LET type == At(b, 4, 2)
      count == At(b, 12, 4)
      slot(i) == At(b, 12 + 4 * i, 4)
      there(i) == At(b, slot(i), 4)
      value(i) ==
        CASE is_scalar(type) -> At(b, slot(i), 8)
          [] type = C_STRING -> TextAt(b, there(i))
          [] type = C_SID -> Slice(b, there(i), SidLen(SidAt(b, there(i))))
          [] OTHER -> Slice(b, there(i) + 4, At(b, there(i), 4))
  IN  IF type \notin ClaimTypes \/ count < 0 THEN NoClaim
      ELSE [name |-> TextAt(b, At(b, 0, 4)), type |-> type, flags |-> At(b, 8, 4),
            values |-> [i \in 1..count |-> value(i)]]

\* Mutant: the data region starts where it would if every slot took four bytes.
data_start_narrow(c) == 16 + 4 * Len(c.values) + 4 * Len(c.values)

\* The header, the value offsets and the slots come first.
data_start(c) == 16 + 4 * Len(c.values) + slot_size(c.type) * Len(c.values)

\* [name_off type reserved flags count][value_off...][slots][data][name].
encode_claim(c) ==
  LET n == Len(c.values)
      data == [i \in 1..n |-> ValueData(c.type, c.values[i])]
      place == Starts(data, data_start(c))
      value_off == [i \in 1..n |-> Word(16 + 4 * n + (i - 1) * slot_size(c.type), 4)]
      slots == [i \in 1..n |-> IF is_scalar(c.type) THEN Word(c.values[i], 8)
                               ELSE Word(place[i], 4)]
      name == utf16le_cstr(c.name)
      entry == Word(place[n + 1], 4) \o Word(c.type, 2) \o Word(0, 2)
                 \o Word(c.flags, 4) \o Word(n, 4)
                 \o Concat(value_off) \o Concat(slots) \o Concat(data) \o name
  IN  IF \/ name = <<>> \/ c.type \notin ClaimTypes
         \/ \E i \in 1..n : ~ValueOk(c.type, c.values[i])
         \/ ClaimParse(entry) = NoClaim
      THEN <<>> ELSE entry

-----------------------------------------------------------------------------
(* LCS credentials: scope GUIDs and private layer names. *)

NilGuid == 0
SEPARATOR == 47     \* stands for both bytes that are refused, "/" and "\"
lower(ch) == IF ch \in 65..90 THEN ch + 32 ELSE ch

\* Mutant: names that differ in case count as different.
same_bytes(a, b) == a = b

eq_ignore_ascii_case(a, b) ==
  Len(a) = Len(b) /\ \A i \in DOMAIN a : lower(a[i]) = lower(b[i])

\* [version reserved scopes layers][GUID...][length...][name...].
encode_lcs(c) ==
  IF \/ Len(c.scopes) > MaxScopes \/ Len(c.layers) > MaxLayers
     \/ \E i \in DOMAIN c.scopes :
          c.scopes[i] = NilGuid \/ c.scopes[i] \in Range(SubSeq(c.scopes, 1, i - 1))
     \/ \E i \in DOMAIN c.layers :
          \/ Len(c.layers[i]) \notin 1..MaxName
          \/ Garbled \in Range(c.layers[i]) \/ SEPARATOR \in Range(c.layers[i])
          \/ \E j \in 1..(i - 1) : eq_ignore_ascii_case(c.layers[j], c.layers[i])
  THEN <<>>
  ELSE Word(1, 4) \o Word(0, 4) \o Word(Len(c.scopes), 4) \o Word(Len(c.layers), 4)
         \o Concat([i \in DOMAIN c.scopes |-> Word(c.scopes[i], 16)])
         \o Concat([i \in DOMAIN c.layers |-> Word(Len(c.layers[i]), 4)])
         \o Concat(c.layers)

\* The extension as the kernel reads it: nothing but the end of the buffer ends it.
LcsParse(b) ==
  LET scopes == At(b, 8, 4)
      layers == At(b, 12, 4)
      length(i) == At(b, 12 + 16 * scopes + 4 * i, 4)
      start[i \in Nat] == IF i = 1 THEN 16 + 16 * scopes + 4 * layers
                          ELSE start[i - 1] + length(i - 1)
  IN  IF start[layers + 1] # Len(b) THEN [scopes |-> <<Garbled>>, layers |-> <<>>]
      ELSE [scopes |-> [i \in 1..scopes |-> At(b, 16 * i, 16)],
            layers |-> [i \in 1..layers |-> Slice(b, start[i], length(i))]]
=============================================================================

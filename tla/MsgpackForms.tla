---------------------------- MODULE MsgpackForms ----------------------------
(***************************************************************************)
(* The byte forms of MessagePack values in src/msgpack.rs: the encoders,   *)
(* the typed readers of the cursor, value_step, that the structural        *)
(* walkers use instead of them, and classify.                              *)
(*                                                                         *)
(* A buffer is the bytes a value starts with, and how many follow that are *)
(* not looked at (a payload).  64-bit integers are eight bytes, so that    *)
(* their width is theirs and not TLC's.                                    *)
(***************************************************************************)
EXTENDS Integers, Sequences, FiniteSets

Size(buf) == Len(buf.bytes) + buf.more
byte(buf, i) == IF i <= Len(buf.bytes) THEN buf.bytes[i] ELSE 0
Lead(buf) == IF Size(buf) = 0 THEN -1 ELSE byte(buf, 1)

Last8(v, k) == SubSeq(v, 9 - k, 8)
Fill(x, k) == [i \in 1..k |-> x]

\* The k bytes of n, most significant first (n < 2^31).
BE(n, k) == [i \in 1..k |-> (n \div <<1, 256, 65536, 16777216>>[1 + k - i]) % 256]

\* The number in the k bytes after pos (k at most 4); from NumMax on they are
\* one, longer than any buffer here.
NumMax == 16777216
Num(buf, pos, k) ==
  LET at(i) == IF i < 1 THEN 0 ELSE byte(buf, pos + i)
  IN  IF k = 4 /\ at(1) > 0 THEN NumMax
      ELSE 65536 * at(k - 2) + 256 * at(k - 1) + at(k)

\* Lead bytes from one on, each with a number of its own: the width of what follows.
Leads(from, widths) == [b \in from..(from + Len(widths) - 1) |-> widths[b - from + 1]]
LeadFor(leads, k) == CHOOSE b \in DOMAIN leads : leads[b] = k

-----------------------------------------------------------------------------
(* The encoders: the bytes before the payload. *)

\* An unsigned integer fits its last k bytes.
Fits(v, k) == \A i \in 1..(8 - k) : v[i] = 0
Negative(v) == v[1] >= 128
\* A negative one does: the rest is sign, and the sign is kept.
FitsSigned(v, k) == (\A i \in 1..(8 - k) : v[i] = 255) /\ v[9 - k] >= 128

enc_u64(v) ==
  IF Fits(v, 1) /\ v[8] < 128 THEN <<v[8]>>
  ELSE IF Fits(v, 1) THEN <<204>> \o Last8(v, 1)
  ELSE IF Fits(v, 2) THEN <<205>> \o Last8(v, 2)
  ELSE IF Fits(v, 4) THEN <<206>> \o Last8(v, 4)
  ELSE <<207>> \o v

\* Mutant: the boundary of the negative fixint is off by one.
EncI64Narrow(v) ==
  IF ~Negative(v) THEN enc_u64(v)
  ELSE IF FitsSigned(v, 1) /\ v[8] > 224 THEN <<v[8]>>
  ELSE IF FitsSigned(v, 1) THEN <<208>> \o Last8(v, 1)
  ELSE IF FitsSigned(v, 2) THEN <<209>> \o Last8(v, 2)
  ELSE IF FitsSigned(v, 4) THEN <<210>> \o Last8(v, 4)
  ELSE <<211>> \o v

enc_i64(v) ==
  IF ~Negative(v) THEN enc_u64(v)
  ELSE IF FitsSigned(v, 1) /\ v[8] >= 224 THEN <<v[8]>>
  ELSE IF FitsSigned(v, 1) THEN <<208>> \o Last8(v, 1)
  ELSE IF FitsSigned(v, 2) THEN <<209>> \o Last8(v, 2)
  ELSE IF FitsSigned(v, 4) THEN <<210>> \o Last8(v, 4)
  ELSE <<211>> \o v

enc_str(n) ==
  IF n <= 31 THEN <<160 + n>>
  ELSE IF n <= 255 THEN <<217>> \o BE(n, 1)
  ELSE IF n <= 65535 THEN <<218>> \o BE(n, 2)
  ELSE <<219>> \o BE(n, 4)

enc_bin(n) ==
  IF n <= 255 THEN <<196>> \o BE(n, 1)
  ELSE IF n <= 65535 THEN <<197>> \o BE(n, 2)
  ELSE <<198>> \o BE(n, 4)

\* Mutant: sixteen entries are put into the four bits of the short form.
EncArrayWide(n) ==
  IF n <= 16 THEN <<144 + n>> ELSE IF n <= 65535 THEN <<220>> \o BE(n, 2) ELSE <<221>> \o BE(n, 4)

enc_array(n) ==
  IF n <= 15 THEN <<144 + n>> ELSE IF n <= 65535 THEN <<220>> \o BE(n, 2) ELSE <<221>> \o BE(n, 4)

enc_map(n) ==
  IF n <= 15 THEN <<128 + n>> ELSE IF n <= 65535 THEN <<222>> \o BE(n, 2) ELSE <<223>> \o BE(n, 4)

FixExt == Leads(212, <<1, 2, 4, 8, 16>>)

HasFixExt(n) == \E b \in DOMAIN FixExt : FixExt[b] = n

enc_ext(type, n) ==
  (IF HasFixExt(n) THEN <<LeadFor(FixExt, n)>>
   ELSE IF n <= 255 THEN <<199>> \o BE(n, 1)
   ELSE IF n <= 65535 THEN <<200>> \o BE(n, 2)
   ELSE <<201>> \o BE(n, 4))
  \o <<type>>

-----------------------------------------------------------------------------
(* The typed readers: where the value ends, and what it is; Fails leaves the *)
(* reader where it was.                                                     *)

Fails == [end |-> 0, value |-> <<>>]
Got(buf, end, value) ==
  IF end <= Size(buf) THEN [end |-> end, value |-> value] ELSE Fails

read_nil(buf) == IF Lead(buf) = 192 THEN Got(buf, 1, <<>>) ELSE Fails
read_bool(buf) == IF Lead(buf) \in {194, 195} THEN Got(buf, 1, <<Lead(buf) - 194>>) ELSE Fails

Unsigned == Leads(204, <<1, 2, 4, 8>>)
Signed == Leads(208, <<1, 2, 4, 8>>)
Next8(buf, k) == [i \in 1..k |-> byte(buf, 1 + i)]
SignOf(b) == IF b >= 128 THEN 255 ELSE 0

\* Any integer form as a sign byte and eight more.
read_int(buf) ==
  LET b == Lead(buf)
      k == IF b \in DOMAIN Unsigned THEN Unsigned[b] ELSE Signed[b]
      sign == IF b \in DOMAIN Unsigned THEN 0 ELSE SignOf(byte(buf, 2))
  IN  CASE b \in 0..127 -> Got(buf, 1, Fill(0, 8) \o <<b>>)
        [] b \in 224..255 -> Got(buf, 1, Fill(255, 8) \o <<b>>)
        [] b \in DOMAIN Unsigned \cup DOMAIN Signed ->
             Got(buf, 1 + k, Fill(sign, 9 - k) \o Next8(buf, k))
        [] OTHER -> Fails

\* Mutant: the value is taken for an i64 without looking whether it is one.
ReadI64Cast(buf) ==
  LET r == read_int(buf) IN IF r = Fails THEN Fails ELSE [r EXCEPT !.value = Tail(@)]

read_i64(buf) ==
  LET r == read_int(buf)
  IN  IF r # Fails /\ r.value[1] = SignOf(r.value[2]) THEN [r EXCEPT !.value = Tail(@)] ELSE Fails

read_u64(buf) ==
  LET r == read_int(buf)
  IN  IF r # Fails /\ r.value[1] = 0 THEN [r EXCEPT !.value = Tail(@)] ELSE Fails

\* A float is its width here.
read_f64(buf) ==
  CASE Lead(buf) = 202 -> Got(buf, 5, <<4>>) [] Lead(buf) = 203 -> Got(buf, 9, <<8>>)
    [] OTHER -> Fails

\* A length in the lead byte, or in the bytes after it.
Header(buf, fix, leads) ==
  LET b == Lead(buf)
  IN  IF b \in fix THEN Got(buf, 1, <<b % Cardinality(fix)>>)
      ELSE IF b \in DOMAIN leads THEN Got(buf, 1 + leads[b], <<Num(buf, 1, leads[b])>>)
      ELSE Fails

Payload(buf, h) == IF h = Fails THEN Fails ELSE Got(buf, h.end + h.value[1], h.value)

\* Mutant: the payload is handed out whatever it is.
ReadStrAny(buf) == Payload(buf, Header(buf, 160..191, Leads(217, <<1, 2, 4>>)))

\* buf.utf8 tells whether the payload is UTF-8.
read_str(buf) ==
  IF buf.utf8 THEN Payload(buf, Header(buf, 160..191, Leads(217, <<1, 2, 4>>))) ELSE Fails
read_bin(buf) == Payload(buf, Header(buf, {}, Leads(196, <<1, 2, 4>>)))
read_array(buf) == Header(buf, 144..159, Leads(220, <<2, 4>>))
read_map(buf) == Header(buf, 128..143, Leads(222, <<2, 4>>))

\* The length, then the type, then the data.
read_ext(buf) ==
  LET b == Lead(buf)
      h == IF b \in DOMAIN FixExt THEN Got(buf, 1, <<FixExt[b]>>)
           ELSE Header(buf, {}, Leads(199, <<1, 2, 4>>))
  IN  IF h = Fails THEN Fails
      ELSE Got(buf, h.end + 1 + h.value[1], <<byte(buf, h.end + 1), h.value[1]>>)

-----------------------------------------------------------------------------
(* The structural walkers' reading of the same bytes. *)

\* How many values follow as children of the one with this lead byte, and where it
\* ends.
step_by_lead(buf, b) ==
  LET n(k) == Num(buf, 1, k)
      leaf(end) == Got(buf, end, <<0>>)
      str_leaf(end) == IF buf.utf8 THEN leaf(end) ELSE Fails
      needs(k) == Size(buf) >= 1 + k
  IN  CASE b \in (0..127) \cup (224..255) \cup {192, 194, 195} -> leaf(1)
        [] b \in {204, 208} -> leaf(2)
        [] b \in {205, 209} -> leaf(3)
        [] b \in {206, 210, 202} -> leaf(5)
        [] b \in {207, 211, 203} -> leaf(9)
        [] b \in 160..191 -> str_leaf(1 + (b % 32))
        [] b = 217 /\ needs(1) -> str_leaf(2 + n(1))
        [] b = 218 /\ needs(2) -> str_leaf(3 + n(2))
        [] b = 219 /\ needs(4) -> str_leaf(5 + n(4))
        [] b = 196 /\ needs(1) -> leaf(2 + n(1))
        [] b = 197 /\ needs(2) -> leaf(3 + n(2))
        [] b = 198 /\ needs(4) -> leaf(5 + n(4))
        [] b \in 144..159 -> Got(buf, 1, <<b % 16>>)
        [] b = 220 -> Got(buf, 3, <<n(2)>>)
        [] b = 221 -> Got(buf, 5, <<n(4)>>)
        [] b \in 128..143 -> Got(buf, 1, <<2 * (b % 16)>>)
        [] b = 222 -> Got(buf, 3, <<2 * n(2)>>)
        [] b = 223 -> Got(buf, 5, <<2 * n(4)>>)
        [] b \in 212..216 -> leaf(1 + <<2, 3, 5, 9, 17>>[b - 211])
        [] b = 199 /\ needs(1) -> leaf(3 + n(1))
        [] b = 200 /\ needs(2) -> leaf(4 + n(2))
        [] b = 201 /\ needs(4) -> leaf(6 + n(4))
        [] OTHER -> Fails
value_step_at(buf) == step_by_lead(buf, Lead(buf))

classify(b) ==
  CASE b \in (0..127) \cup (224..255) \cup (204..211) -> "int"
    [] b = 192 -> "nil"
    [] b \in {194, 195} -> "bool"
    [] b \in {202, 203} -> "float"
    [] b \in (160..191) \cup (217..219) -> "str"
    [] b \in 196..198 -> "bin"
    [] b \in (144..159) \cup {220, 221} -> "array"
    [] b \in (128..143) \cup {222, 223} -> "map"
    [] b \in (199..201) \cup (212..216) -> "ext"
    [] OTHER -> "none"

-----------------------------------------------------------------------------
(* src/access.rs writes and walks audit contexts with forms of its own. *)

enc_uint(v) ==
  IF Fits(v, 1) /\ v[8] < 128 THEN <<v[8]>>
  ELSE LET k == IF Fits(v, 1) THEN 1 ELSE IF Fits(v, 2) THEN 2 ELSE IF Fits(v, 4) THEN 4 ELSE 8
       IN  <<LeadFor(Unsigned, k)>> \o Last8(v, k)

enc_int(v) ==
  IF ~Negative(v) THEN enc_uint(v)
  ELSE IF FitsSigned(v, 1) /\ v[8] >= 224 THEN <<v[8]>>
  ELSE LET k == IF FitsSigned(v, 1) THEN 1 ELSE IF FitsSigned(v, 2) THEN 2
                ELSE IF FitsSigned(v, 4) THEN 4 ELSE 8
       IN  <<LeadFor(Signed, k)>> \o Last8(v, k)

\* From 64 KiB on there is no form: the context is refused.
NoBytes == <<>>
enc_blob(n, bin) ==
  IF ~bin /\ n <= 31 THEN <<160 + n>>
  ELSE IF n <= 255 THEN <<IF bin THEN 196 ELSE 217>> \o BE(n, 1)
  ELSE IF n <= 65535 THEN <<IF bin THEN 197 ELSE 218>> \o BE(n, 2)
  ELSE NoBytes
audit_enc_map(n) ==
  IF n <= 15 THEN <<128 + n>> ELSE IF n <= 65535 THEN <<222>> \o BE(n, 2) ELSE NoBytes

audit_map_len(buf) == Header(buf, 128..143, Leads(222, <<2, 4>>))

\* Mutant: the bytes are not looked at.
AuditStrAny(buf) == Payload(buf, Header(buf, 160..191, Leads(217, <<1, 2, 4>>)))

audit_str(buf) ==
  LET h == Header(buf, 160..191, Leads(217, <<1, 2, 4>>))
  IN  IF h # Fails /\ h.end + h.value[1] <= Size(buf) /\ buf.utf8
      THEN [h EXCEPT !.end = @ + h.value[1]] ELSE Fails

\* What mp_skip_value does with one lead byte: width bytes of length, what they say
\* and some more to step over, and the children.
SkipForm(width, more, children) == [width |-> width, more |-> more, children |-> children]

SkipTable(b) ==
  CASE b \in 128..143 -> SkipForm(0, 0, 2 * (b % 16)) [] b \in 144..159 -> SkipForm(0, 0, b % 16)
    [] b \in 160..191 -> SkipForm(0, b % 32, 0)
    [] b \in {196, 217} -> SkipForm(1, 0, 0) [] b \in {197, 218} -> SkipForm(2, 0, 0)
    [] b \in {198, 219} -> SkipForm(4, 0, 0)
    [] b = 199 -> SkipForm(1, 1, 0) [] b = 200 -> SkipForm(2, 1, 0) [] b = 201 -> SkipForm(4, 1, 0)
    [] b \in {204, 208} -> SkipForm(0, 1, 0) [] b \in {205, 209} -> SkipForm(0, 2, 0)
    [] b \in {202, 206, 210} -> SkipForm(0, 4, 0) [] b \in {203, 207, 211} -> SkipForm(0, 8, 0)
    [] b \in 212..216 -> SkipForm(0, <<2, 3, 5, 9, 17>>[b - 211], 0)
    [] OTHER -> SkipForm(0, 0, 0)

skip_by_lead(buf, b) ==
  LET form == SkipTable(b)
  IN  CASE b \in {-1, 193} -> Fails
        [] b = 220 -> Got(buf, 3, <<Num(buf, 1, 2)>>)
        [] b = 221 -> Got(buf, 5, <<Num(buf, 1, 4)>>)
        [] b = 222 -> Got(buf, 3, <<2 * Num(buf, 1, 2)>>)
        [] b = 223 -> Got(buf, 5, <<2 * Num(buf, 1, 4)>>)
        [] OTHER -> IF Size(buf) < 1 + form.width THEN Fails
                    ELSE Got(buf, 1 + form.width + form.more + Num(buf, 1, form.width),
                             <<form.children>>)
audit_skip_at(buf) == skip_by_lead(buf, Lead(buf))

-----------------------------------------------------------------------------
(* One value to encode, or one buffer to read. *)

CONSTANTS
  Ints64,      \* integers, as their eight bytes
  Lengths,     \* payload and container lengths
  ExtTypes,    \* types of extension values, as bytes
  Tails,       \* what follows a lead byte
  Mores        \* bytes behind that

ASSUME FormsAssumption ==
  /\ \A v \in Ints64 : v \in Seq(0..255) /\ Len(v) = 8
  /\ Lengths \subseteq 0..(NumMax - 1)
  /\ ExtTypes \subseteq 0..255
  /\ Tails \subseteq Seq(0..255)
  /\ Mores \subseteq Nat

VARIABLE form

Value(kind, v, n, bytes, more) ==
  [kind |-> kind, v |-> v, n |-> n, bytes |-> bytes, more |-> more, utf8 |-> TRUE]

\* The lengths the audit context's forms take.
BlobLengths(bin) == {n \in Lengths : enc_blob(n, bin) # NoBytes}
MapLengths == {n \in Lengths : audit_enc_map(n) # NoBytes}

WrittenPlain ==
  {Value("nil", <<>>, 0, <<192>>, 0), Value("float", <<8>>, 0, <<203>>, 8)}
  \cup {Value("bool", <<v>>, 0, <<194 + v>>, 0) : v \in {0, 1}}
WrittenInts ==
  {Value("i64", v, 0, enc_i64(v), 0) : v \in Ints64}
  \cup {Value("u64", v, 0, enc_u64(v), 0) : v \in Ints64}
  \cup {Value("i64", v, 0, enc_int(v), 0) : v \in Ints64}
  \cup {Value("u64", v, 0, enc_uint(v), 0) : v \in Ints64}
WrittenBlobs ==
  {Value("str", <<n>>, 0, enc_str(n), n) : n \in Lengths}
  \cup {Value("bin", <<n>>, 0, enc_bin(n), n) : n \in Lengths}
  \cup {Value("str", <<n>>, 0, enc_blob(n, FALSE), n) : n \in BlobLengths(FALSE)}
  \cup {Value("bin", <<n>>, 0, enc_blob(n, TRUE), n) : n \in BlobLengths(TRUE)}
WrittenExts == {Value("ext", <<t, n>>, 0, enc_ext(t, n), n) : t \in ExtTypes, n \in Lengths}
WrittenCounts ==
  {Value("array", <<n>>, n, enc_array(n), 0) : n \in Lengths}
  \cup {Value("map", <<n>>, 2 * n, enc_map(n), 0) : n \in Lengths}
  \cup {Value("map", <<n>>, 2 * n, audit_enc_map(n), 0) : n \in MapLengths}
ToWrite == WrittenPlain \cup WrittenInts \cup WrittenBlobs \cup WrittenExts \cup WrittenCounts

Raw(b, t, m, u) ==
  [kind |-> "raw", v |-> <<>>, n |-> 0, bytes |-> <<b>> \o t, more |-> m, utf8 |-> u]
ToRead == {Raw(b, t, m, u) : b \in 0..255, t \in Tails, m \in Mores, u \in BOOLEAN}

\* The functions keep no state: a form is picked and stays.
FormsInit == form \in ToWrite \cup ToRead
FormsSpec == FormsInit /\ [][UNCHANGED form]_form

Read(kind, buf) ==
  CASE kind = "nil" -> read_nil(buf) [] kind = "bool" -> read_bool(buf)
    [] kind = "i64" -> read_i64(buf) [] kind = "u64" -> read_u64(buf)
    [] kind = "float" -> read_f64(buf) [] kind = "str" -> read_str(buf)
    [] kind = "bin" -> read_bin(buf) [] kind = "array" -> read_array(buf)
    [] kind = "map" -> read_map(buf) [] kind = "ext" -> read_ext(buf)
    [] OTHER -> Fails

\* The readers of a value that peek calls int: at least one of them must do.
ReadersOf(class) == IF class = "int" THEN {"i64", "u64"} ELSE {class}
Kinds == {"nil", "bool", "i64", "u64", "float", "str", "bin", "array", "map", "ext"}

(***************************************************************************)
(* What peios_mp_write_* wrote is what the reader of the same type reads,  *)
(* to the last byte, and skip and validate step over it with the same      *)
(* count of children.  An integer the other reader's type has no room for  *)
(* is refused by it, not wrapped.                                          *)
(***************************************************************************)
RoundTrip ==
  form.kind \in Kinds =>
    /\ Read(form.kind, form) = [end |-> Size(form), value |-> form.v]
    /\ value_step_at(form) = [end |-> Size(form), value |-> <<form.n>>]
    /\ form.kind = "u64" => read_i64(form) = IF Negative(form.v) THEN Fails ELSE read_u64(form)
    /\ form.kind = "i64" => read_u64(form) = IF Negative(form.v) THEN Fails ELSE read_i64(form)

\* A form with another lead byte, and k bytes for the same length or integer.
Behind(kind, v, k) ==
  IF kind \in {"i64", "u64"} THEN Last8(v, k)
  ELSE IF kind = "ext" THEN BE(v[2], k) \o <<v[1]>>
  ELSE IF v = <<>> THEN <<>> ELSE BE(v[1], k)
Other(f, b, k) == Value(f.kind, f.v, f.n, <<b>> \o Behind(f.kind, f.v, k), f.more)
ReadsAs(f, buf) == Read(f.kind, buf) # Fails /\ Read(f.kind, buf).value = f.v

(***************************************************************************)
(* The encoders' smallest form: no other lead byte with a length or an     *)
(* integer behind it gives the same value in fewer bytes.                  *)
(***************************************************************************)
SmallestForm ==
  form.kind \in Kinds \ {"float"} =>
    \A b \in 0..255, k \in {0, 1, 2, 4} :
      ReadsAs(form, Other(form, b, k)) => Size(form) <= Size(Other(form, b, k))

\* The forms enc_* choose at every boundary: the smallest, and read back as they were
\* meant.
WrittenExact == RoundTrip /\ SmallestForm

(***************************************************************************)
(* The typed readers, value_step and the audit context's walk are written  *)
(* three times over the same lead bytes.  On every buffer they agree: the  *)
(* type peek reports names the readers that can succeed, one of those does *)
(* exactly when value_step does, and it stops where value_step stops.  The *)
(* walk of an audit context differs only in not looking into the strings   *)
(* it steps over.                                                          *)
(***************************************************************************)
ReadersAgree ==
  form.kind = "raw" =>
    LET step == value_step_at(form)
        class == classify(Lead(form))
        wins == {k \in Kinds : Read(k, form) # Fails}
    IN  /\ wins \subseteq ReadersOf(class)
        /\ (wins = {}) = (step = Fails)
        /\ \A k \in wins : Read(k, form).end = step.end
        /\ "array" \in wins => read_array(form).value[1] = step.value[1]
        /\ "map" \in wins => 2 * read_map(form).value[1] = step.value[1]
        /\ wins \cap {"array", "map"} = {} /\ wins # {} => step.value = <<0>>
        /\ audit_map_len(form) = read_map(form)
        /\ audit_str(form) = read_str(form)
        /\ audit_skip_at(form) = value_step_at([form EXCEPT !.utf8 = TRUE])
=============================================================================

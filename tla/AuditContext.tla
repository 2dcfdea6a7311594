---------------------------- MODULE AuditContext ----------------------------
(***************************************************************************)
(* Audit contexts and access checks (src/access.rs): the validator and the *)
(* encoder of the map that names a guarded object, and the check that      *)
(* carries it to the kernel (external).                                    *)
(*                                                                         *)
(* A context is a buffer of Msgpack's values, with the text of a string or *)
(* the payload of a leaf beside them.  Text is a sequence of letters, of   *)
(* which "kind" is one, that stands for the word; "raw" is a byte that is  *)
(* not UTF-8.  Sizes count letters.                                        *)
(***************************************************************************)
EXTENDS Msgpack

CONSTANTS
  AUDIT_CONTEXT_MAX_LEN,      \* 4096 bytes in the code
  AUDIT_CONTEXT_MAX_DEPTH,    \* 31 in the code
  AuditNames,                 \* kinds a caller names
  AuditFields,                \* fields a caller gives: [key, value_type, payload]
  Pieces,                     \* what a caller appends to a context of its own
  Requests,                   \* requests a caller makes
  U32_MAX,                    \* the largest length a system call takes
  MaxPieces, MaxFields        \* bounds

\* An argument of a request: whether its pointer is not NULL, and its length.
Arg == [ptr : BOOLEAN, len : Nat]
NoArg == [ptr |-> FALSE, len |-> 0]
Request == [sd : Arg, self_sid : Arg, local_claims : Arg, object_tree : Arg, audit_context : Arg]

\* The context the caller holds; its length is the context's.
Held == [ptr |-> TRUE, len |-> 1]

ASSUME AuditAssumption ==
  /\ AUDIT_CONTEXT_MAX_LEN \in Nat /\ MaxPieces \in Nat /\ MaxFields \in Nat
  /\ AUDIT_CONTEXT_MAX_DEPTH \in 1..MAX_DEPTH
  /\ AuditNames \subseteq Seq(STRING) /\ Pieces \subseteq Seq(AnyToken) /\ "kind" \in STRING
  /\ U32_MAX \in Nat /\ Requests \subseteq Request
  /\ \A r \in Requests : /\ r.object_tree.len <= U32_MAX
                         /\ r.audit_context = Held \/ r.audit_context.len = 0 \/ ~r.audit_context.ptr
  /\ AuditFields \subseteq [key : Seq(STRING), value_type : STRING, payload : Seq(STRING)]

Lower == {"a", "kind"}
Digit == {"1"}
KIND == <<"kind">>
Utf8(text) == \A i \in 1..Len(text) : text[i] # "raw"

Str(text) == <<"str", 0, text>>
IsStr(t) == t[1] = "str"
ByteSize(t) == 1 + IF Len(t) = 3 THEN Len(t[3]) ELSE 0
BytesFrom(b, p) ==
  LET sum[i \in Places] == IF i > Len(b) THEN 0 ELSE ByteSize(b[i]) + sum[i + 1] IN sum[p]

-----------------------------------------------------------------------------
(* The validator. *)

\* Mutant: a name may end in a dash.
SegmentOpen(s) ==
  /\ s # <<>> /\ s[1] \in Lower
  /\ \A i \in 2..Len(s) : s[i] \in Lower \cup Digit \/ (s[i] = "-" /\ s[i - 1] # "-")

is_segment(s) ==
  /\ s # <<>> /\ s[1] \in Lower
  /\ \A i \in 2..Len(s) : s[i] \in Lower \cup Digit \/ (s[i] = "-" /\ s[i - 1] # "-")
  /\ s[Len(s)] # "-"

mp_map_len(b) == IF b # <<>> /\ b[1][1] = "map" THEN b[1][2] ELSE -1
mp_str(b, p) == p <= Len(b) /\ IsStr(b[p]) /\ Utf8(b[p][3])

\* Mutant: the bytes that are left are compared before the value's children are known.
SkipHasty(b, p) ==
  LET loop[q \in Places] == [pending \in Nat |->
        IF pending = 0 THEN q
        ELSE IF q > Len(b) \/ b[q] = Bad THEN 0
        ELSE LET left == pending - 1 + (IF b[q][1] = "map" THEN 2 * b[q][2] ELSE b[q][2])
             IN  IF left >= BytesFrom(b, q + 1) THEN 0 ELSE loop[q + 1][left]]
  IN  loop[p][1]

\* Where the value at p ends, 0 if it does not: more values than bytes left are
\* refused at once.
mp_skip_value(b, p) ==
  LET loop[q \in Places] == [pending \in Nat |->
        IF pending = 0 THEN q
        ELSE IF q > Len(b) \/ b[q] = Bad THEN 0
        ELSE LET left == pending - 1 + (IF b[q][1] = "map" THEN 2 * b[q][2] ELSE b[q][2])
             IN  IF left > BytesFrom(b, q + 1) THEN 0 ELSE loop[q + 1][left]]
  IN  loop[p][1]

NoPairs == [ok |-> FALSE, at |-> 0, pairs |-> <<>>]

\* The n pairs behind a map header, the values as slices; ok tells whether the
\* keys are strings and the values end.
Pairs(b, n) ==
  LET read[i \in 0..n] ==
        LET r == read[i - 1]
            q == mp_skip_value(b, r.at + 1)
        IN  IF i = 0 THEN [ok |-> TRUE, at |-> 2, pairs |-> <<>>]
            ELSE IF ~r.ok \/ ~mp_str(b, r.at) \/ q = 0 THEN NoPairs
            ELSE [ok |-> TRUE, at |-> q,
                  pairs |-> Append(r.pairs, [key |-> b[r.at][3], value |-> SubSeq(b, r.at + 1, q - 1)])]
  IN  read[n]

audit_body_valid(body) ==
  LET n == mp_map_len(body)
      r == Pairs(body, n)
  IN  /\ n > 0
      /\ r.ok /\ r.at = Len(body) + 1
      /\ \A i \in 1..n : is_segment(r.pairs[i].key)

Single(S) == \E x \in S : S = {x}

\* Mutant: the other key's name is not looked at.
ShapeAnyKey(b) ==
  LET n == mp_map_len(b)
      r == Pairs(b, n)
      kinds == {i \in 1..n : r.pairs[i].key = KIND}
  IN  /\ n \in 1..2
      /\ r.ok /\ r.at = Len(b) + 1
      /\ Single(kinds)
      /\ \A i \in kinds :
           LET v == r.pairs[i].value
           IN  /\ mp_str(v, 1) /\ Len(v) = 1 /\ is_segment(v[1][3])
               /\ \A j \in (1..n) \ kinds : audit_body_valid(r.pairs[j].value)

audit_context_shape(b) ==
  LET n == mp_map_len(b)
      r == Pairs(b, n)
      kinds == {i \in 1..n : r.pairs[i].key = KIND}
  IN  /\ n \in 1..2
      /\ r.ok /\ r.at = Len(b) + 1
      /\ Single(kinds)
      /\ \A i \in kinds :
           LET v == r.pairs[i].value
           IN  /\ mp_str(v, 1) /\ Len(v) = 1 /\ is_segment(v[1][3])
               /\ \A j \in (1..n) \ kinds :
                    r.pairs[j].key = v[1][3] /\ audit_body_valid(r.pairs[j].value)

\* peios_mp_validate also refuses a string that is not UTF-8.
ToValidate(b) == [i \in 1..Len(b) |-> IF IsStr(b[i]) /\ ~Utf8(b[i][3]) THEN Bad ELSE b[i]]

audit_context_valid(b) ==
  /\ b # <<>> /\ BytesFrom(b, 1) <= AUDIT_CONTEXT_MAX_LEN
  /\ audit_context_shape(b)
  /\ validate(ToValidate(b), AUDIT_CONTEXT_MAX_DEPTH)

-----------------------------------------------------------------------------
(* The encoder. *)

segment_arg(name) == Len(name) <= AUDIT_CONTEXT_MAX_LEN /\ is_segment(name)

ValueTypes == {"uint", "int", "bool", "str", "bin"}

FieldValue(f) ==
  IF f.value_type \notin ValueTypes THEN Bad
  ELSE <<IF f.value_type = "uint" THEN "int" ELSE f.value_type, 0, f.payload>>

value_ok(f) ==
  /\ f.value_type \in ValueTypes
  /\ f.value_type = "bool" => f.payload \in {<<"0">>, <<"1">>}
  /\ f.value_type \in {"str", "bin"} => Len(f.payload) <= AUDIT_CONTEXT_MAX_LEN
  /\ f.value_type = "str" => Utf8(f.payload)

\* What has been written after n fields: a key and a value for each.
Written(kind, fields, n) ==
  IF fields = <<>> THEN <<<<"map", 1>>, Str(KIND), Str(kind)>>
  ELSE <<<<"map", 2>>, Str(KIND), Str(kind), Str(kind), <<"map", Len(fields)>>>>
       \o [i \in 1..(2 * n) |-> IF i % 2 = 1 THEN Str(fields[(i + 1) \div 2].key)
                                ELSE FieldValue(fields[i \div 2])]

Refused == <<>>

\* Mutant: a name may be given twice.
EncodeTwice(kind, fields) ==
  LET all == Written(kind, fields, Len(fields))
  IN  IF /\ segment_arg(kind)
         /\ \A i \in 1..Len(fields) :
              /\ segment_arg(fields[i].key) /\ value_ok(fields[i])
              /\ BytesFrom(Written(kind, fields, i), 1) <= AUDIT_CONTEXT_MAX_LEN
         /\ fields = <<>> \/ audit_context_valid(all)
      THEN all ELSE Refused

\* Nothing is looked at again when there are no fields.
encode_audit_context(kind, fields) ==
  LET all == Written(kind, fields, Len(fields))
  IN  IF /\ segment_arg(kind)
         /\ \A i \in 1..Len(fields) :
              /\ segment_arg(fields[i].key) /\ value_ok(fields[i])
              /\ \A j \in 1..(i - 1) : fields[j].key # fields[i].key
              /\ BytesFrom(Written(kind, fields, i), 1) <= AUDIT_CONTEXT_MAX_LEN
         /\ fields = <<>> \/ audit_context_valid(all)
      THEN all ELSE Refused

-----------------------------------------------------------------------------
(* A caller that puts a context together with the writer or encodes one, and *)
(* checks access with it.                                                    *)

VARIABLES
  context,      \* the context it holds, <<>> for none
  pieces,       \* how many pieces it put together
  ask,          \* what an encoded one was asked to say
  check         \* the last check: what was asked, what the kernel was given and
                \* answered, what was returned and stored for the caller
auditVars == <<context, pieces, ask, check>>

NoAsk == [kind |-> <<>>, fields |-> <<>>]
NoRequest == [sd |-> NoArg, self_sid |-> NoArg, local_claims |-> NoArg, object_tree |-> NoArg, audit_context |-> NoArg]

\* What the kernel stores beside its verdict; without a verdict it may have begun to.
Answers ==
  [verdict : {"granted", "EACCES", "EFAULT"}, granted : {0, 1}, audit : {<<0, 0>>, <<2, 1>>}]
NotAsked == [verdict |-> "none", granted |-> 0, audit |-> <<0, 0>>]

\* Which outputs the caller has a buffer for.
Wants == [granted : BOOLEAN, audit : BOOLEAN]

Untouched == <<>>
NoCheck ==
  [req |-> NoRequest, list |-> FALSE, results |-> NoArg, given |-> NoRequest, kernel |-> NotAsked, ret |-> "none",
   wants |-> [granted |-> FALSE, audit |-> FALSE], granted |-> Untouched, audit |-> Untouched]

AuditStart == context = <<>> /\ pieces = 0 /\ ask = NoAsk /\ check = NoCheck

WritePiece(piece) ==
  /\ ask = NoAsk /\ pieces < MaxPieces /\ check = NoCheck
  /\ pieces' = pieces + 1 /\ context' = context \o piece
  /\ UNCHANGED <<ask, check>>

\* peios_audit_context_encode: NULL names and arrays are refused like empty names.
Encode(kind, fields) ==
  /\ context = <<>> /\ ask = NoAsk /\ check = NoCheck
  /\ ask' = [kind |-> kind, fields |-> fields]
  /\ context' = encode_audit_context(kind, fields)
  /\ UNCHANGED <<pieces, check>>

ptr_len_valid(arg) == arg.len = 0 \/ arg.ptr

validate_request(req, require_object_tree) ==
  /\ req.sd.ptr /\ req.sd.len # 0
  /\ \A arg \in {req.self_sid, req.local_claims, req.audit_context, req.object_tree} : ptr_len_valid(arg)
  /\ require_object_tree => req.object_tree.len # 0
  /\ req.audit_context.ptr =>
       req.audit_context.len \in 1..AUDIT_CONTEXT_MAX_LEN /\ audit_context_valid(context)

U32(arg) == [arg EXCEPT !.len = @ % (U32_MAX + 1)]

\* Mutant: a length is cut to 32 bits.
BuildArgsCut(req) ==
  [req EXCEPT !.sd = U32(@), !.self_sid = U32(@), !.local_claims = U32(@), !.audit_context = U32(@)]

\* The arguments of the system call, NoRequest for a length that does not fit them.
build_args(req) ==
  IF \A arg \in {req.sd, req.self_sid, req.local_claims, req.audit_context} : arg.len <= U32_MAX
  THEN req ELSE NoRequest

Rejected(req) == [NoCheck EXCEPT !.req = req, !.ret = "EINVAL"]

\* The kernel's answer to a request, with what the caller is told of it: the outputs
\* it has a buffer for, if they are copied.
Answer(req, answer, wants, copied) ==
  [req |-> req, list |-> FALSE, results |-> NoArg, given |-> build_args(req), kernel |-> answer,
   ret |-> IF answer.verdict = "granted" THEN "0" ELSE answer.verdict,
   wants |-> wants,
   granted |-> IF copied /\ wants.granted THEN <<answer.granted>> ELSE Untouched,
   audit |-> IF copied /\ wants.audit THEN answer.audit ELSE Untouched]

\* Mutant: what the kernel stored is handed on only when it granted.
AccessCheckGrantOnly(req) ==
  /\ check = NoCheck
  /\ IF validate_request(req, FALSE) /\ build_args(req) # NoRequest
     THEN \E wants \in Wants, answer \in Answers :
            check' = Answer(req, answer, wants, answer.verdict = "granted")
     ELSE check' = Rejected(req)
  /\ UNCHANGED <<context, pieces, ask>>

\* A denial comes with its outputs, another error without.
AccessCheck(req) ==
  /\ check = NoCheck
  /\ IF validate_request(req, FALSE) /\ build_args(req) # NoRequest
     THEN \E wants \in Wants, answer \in Answers :
            check' = Answer(req, answer, wants, answer.verdict \in {"granted", "EACCES"})
     ELSE check' = Rejected(req)
  /\ UNCHANGED <<context, pieces, ask>>

AsList(outcome, results) == [outcome EXCEPT !.list = TRUE, !.results = results]

\* The verdicts are in the caller's array, that the kernel fills.
AccessCheckList(req, results) ==
  /\ check = NoCheck
  /\ IF /\ validate_request(req, TRUE)
        /\ results.len = req.object_tree.len /\ results.ptr
        /\ build_args(req) # NoRequest
     THEN \E answer \in Answers : check' = AsList(Answer(req, answer, NoCheck.wants, FALSE), results)
     ELSE check' = AsList(Rejected(req), results)
  /\ UNCHANGED <<context, pieces, ask>>

\* A caller passes the context it holds; one that was refused a context gives up.
Passing(req) ==
  IF req.audit_context = Held THEN [req EXCEPT !.audit_context = [ptr |-> TRUE, len |-> BytesFrom(context, 1)]]
  ELSE req
MayPass(req) == (req.audit_context = Held <=> context # <<>>) /\ (ask # NoAsk => context # Refused)

AuditNext ==
  \/ \E piece \in Pieces : WritePiece(piece)
  \/ \E kind \in AuditNames, fields \in UNION {[1..n -> AuditFields] : n \in 0..MaxFields} :
       Encode(kind, fields)
  \/ \E req \in Requests : MayPass(req) /\ AccessCheck(Passing(req))
  \/ \E req \in Requests, results \in [ptr : BOOLEAN, len : {0, 1}] : MayPass(req) /\ AccessCheckList(Passing(req), results)

AuditInit == Init /\ AuditStart
AuditSpec == AuditInit /\ [][AuditNext /\ UNCHANGED vars]_<<vars, auditVars>>

-----------------------------------------------------------------------------
(***************************************************************************)
(* The kernel's rules, as access.rs restates them, by the grammar of       *)
(* Msgpack rather than by a walk.                                          *)
(***************************************************************************)
Segment(s) ==
  /\ s # <<>> /\ s[1] \in Lower
  /\ \A i \in 1..Len(s) : s[i] \in Lower \cup Digit \cup {"-"}
  /\ \A i \in 1..Len(s) : s[i] = "-" => i < Len(s) /\ s[i - 1] # "-" /\ s[i + 1] # "-"

\* Where the keys of the map at p are.
Keys(b, p) == {Ends(b)[p + 1][2 * (i - 1)][-1] : i \in 1..b[p][2]}

Rules(b) ==
  /\ b # <<>> /\ BytesFrom(b, 1) <= AUDIT_CONTEXT_MAX_LEN
  /\ OneValue(ToValidate(b), AUDIT_CONTEXT_MAX_DEPTH)
  /\ b[1][1] = "map" /\ b[1][2] <= 2
  /\ \E k \in Keys(b, 1) :
       /\ b[k] = Str(KIND) /\ IsStr(b[k + 1]) /\ Segment(b[k + 1][3])
       /\ \A o \in Keys(b, 1) \ {k} :
            /\ b[o] = b[k + 1] /\ b[o] # Str(KIND)
            /\ b[o + 1][1] = "map" /\ b[o + 1][2] > 0
            /\ \A f \in Keys(b, o + 1) : IsStr(b[f]) /\ Segment(b[f][3])

\* No two fields have the same name.
Apart(fields) == \A i, j \in 1..Len(fields) : fields[i].key = fields[j].key => i = j

\* The encoder's own rules.
Sayable(a) ==
  LET keys == {a.fields[i].key : i \in 1..Len(a.fields)}
  IN  /\ \A name \in keys \cup {a.kind} : Segment(name)
      /\ Apart(a.fields)
      /\ \A i \in 1..Len(a.fields) : value_ok(a.fields[i])
      /\ a.fields # <<>> => a.kind # KIND /\ Rules(Written(a.kind, a.fields, Len(a.fields)))

\* audit_context_valid is exactly the kernel's rules, though it walks the buffer
\* twice and in two ways: empty, nested, repeated, cut and foreign entries in every
\* place.  encode_audit_context gives a context exactly for what it can say, the
\* context says that, and with fields it keeps the rules.
ContextExact ==
  /\ audit_context_valid(context) <=> Rules(context)
  /\ ask # NoAsk => (context # Refused <=> segment_arg(ask.kind) /\ Sayable(ask))
  /\ ask # NoAsk /\ context # Refused =>
       /\ context[3] = Str(ask.kind)
       /\ ask.fields # <<>> =>
            {<<context[k], context[k + 1]>> : k \in Keys(context, 5)}
              = {<<Str(f.key), FieldValue(f)>> : f \in {ask.fields[i] : i \in 1..Len(ask.fields)}}

\* A request whose pointers go with their lengths and whose lengths the kernel can be told.
Sound(req, list, results) ==
  /\ req.sd.ptr /\ req.sd.len > 0
  /\ \A arg \in {req.sd, req.self_sid, req.local_claims, req.object_tree, req.audit_context} :
       arg.len <= U32_MAX /\ (arg.len > 0 => arg.ptr)
  /\ req.audit_context.ptr => req.audit_context.len > 0
  /\ list => results.ptr /\ results.len > 0 /\ results.len = req.object_tree.len

\* peios_access_check, peios_access_check_list: a sound request always reaches the
\* kernel, with the lengths the caller gave, and no other does, nor a context the
\* kernel would refuse; all the kernel stored with a verdict, a denial too, is in the
\* buffers the caller has for it, and without a verdict nothing is stored.
CheckExact ==
  LET reached == check.kernel # NotAsked
      decided == check.kernel.verdict \in {"granted", "EACCES"}
  IN  check # NoCheck =>
        /\ reached <=> Sound(check.req, check.list, check.results) /\ (check.req.audit_context.ptr => Rules(context))
        /\ reached => check.given = check.req
        /\ check.granted = IF decided /\ check.wants.granted THEN <<check.kernel.granted>> ELSE Untouched
        /\ check.audit = IF decided /\ check.wants.audit THEN check.kernel.audit ELSE Untouched
        /\ check.ret = IF ~reached THEN "EINVAL" ELSE IF check.kernel.verdict = "granted" THEN "0" ELSE check.kernel.verdict

\* include/peios/access.h on peios_audit_context_encode: "Fails with EINVAL for [...]
\* a context longer than KACS_ACCESS_CHECK_MAX_AUDIT_CONTEXT_LEN bytes."
EncodedFits == ask # NoAsk => BytesFrom(context, 1) <= AUDIT_CONTEXT_MAX_LEN
=============================================================================

------------------------------ MODULE MCAudit ------------------------------
EXTENDS AuditContext

A == <<"a">>
Letters == {"a", "1", "-", "A"}
Long == [i \in 1..(AUDIT_CONTEXT_MAX_LEN - 1) |-> "a"]
MCAuditNames ==
  UNION {[1..n -> Letters] : n \in 0..2}
  \cup {<<"a", "-", "1">>, <<"a", "-", "-">>, <<"a", "1", "-">>, KIND, Long}

Field(key, type, p) == [key |-> key, value_type |-> type, payload |-> p]
MCAuditFields ==
  {Field(A, "uint", <<"9">>), Field(A, "bool", <<"1">>), Field(A, "bool", <<"2">>), Field(A, "nil", <<>>),
   Field(KIND, "int", <<"9">>), Field(<<"a", "1">>, "str", <<"A">>), Field(<<"1">>, "bin", <<>>),
   Field(<<"a", "-">>, "uint", <<>>), Field(A, "str", <<"raw">>), Field(A, "bin", <<"raw", "raw", "raw">>)}

\* A request with every argument that may be left out left out; the ones that differ
\* from it or from one with an object tree in one argument; and ones with a context.
Some == [ptr |-> TRUE, len |-> 1]
Plain == [NoRequest EXCEPT !.sd = Some]
Args == [ptr : BOOLEAN, len : {0, 1, U32_MAX + 1}]
MCRequests ==
  UNION {{[r EXCEPT !.sd = a], [r EXCEPT !.self_sid = a], [r EXCEPT !.local_claims = a]} :
           r \in {Plain, [Plain EXCEPT !.object_tree = Some]}, a \in Args}
  \cup {[Plain EXCEPT !.object_tree = a] : a \in [ptr : BOOLEAN, len : {0, 1}]}
  \cup {[Plain EXCEPT !.object_tree = t, !.audit_context = a] :
          t \in {NoArg, Some}, a \in {Held, [ptr |-> TRUE, len |-> 0], [ptr |-> FALSE, len |-> 1]}}

Map(n) == <<"map", n>>
Array(n) == <<"array", n>>
MCPieces ==
  {<<Map(0)>>, <<Map(1)>>, <<Map(2)>>, <<Map(3)>>, <<Array(1)>>, <<Array(2)>>, <<Leaf>>, <<Bad>>,
   <<Str(KIND)>>, <<Str(A)>>, <<Str(<<"A">>)>>, <<Str(<<"raw">>)>>, <<Str(KIND), Str(A)>>, <<Str(A), Leaf>>,
   <<Str(A), Map(1)>>, <<Map(2), Str(KIND), Str(A)>>,
   <<Map(2), Str(KIND), Str(A), Str(A), Map(1)>>, <<Map(2), Str(A), Map(1), Str(A), Leaf>>}
=============================================================================

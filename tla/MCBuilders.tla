----------------------------- MODULE MCBuilders -----------------------------
EXTENDS Builders

Ace(type, sid, object, inherited, app) ==
  [type |-> type, flags |-> 1, mask |-> 5, sid |-> sid, object_type |-> object,
   inherited_object_type |-> inherited, app_data |-> app]

MCAceSpecs ==
  {Ace(ALLOW, 1001, None, None, <<>>), Ace(DENY, 2001, None, None, <<>>),
   Ace(ALLOW_OBJECT, 1001, 71, None, <<>>), Ace(ALLOW_CALLBACK_OBJECT, 1001, None, 72, Word(9, 4)),
   Ace(ALLOW_CALLBACK, 1001, None, None, Word(8, 2)),
   Ace(AUDIT, BadSid, None, None, <<>>), Ace(ALLOW, NullSid, None, None, <<>>),
   [Ace(LABEL, 1016, None, None, <<>>) EXCEPT !.flags = 0]}

MCSids == {NullArg, SidBytes(1001), SidBytes(2001), Word(BadSid, 12)}
MCTokSids == MCSids \ {NullArg}
MCGids == {<<>>, <<5, 6>>, NullArg}
Claim(name, type, values) == [name |-> name, type |-> type, flags |-> 2, values |-> values]
ClaimValues ==
  {Claim(<<1100, 66>>, C_STRING, <<<<67, 1200>>, <<>>>>),
   Claim(<<65>>, C_SID, <<SidBytes(2001)>>), Claim(<<65>>, C_OCTET, <<<<8, 9, 7>>, <<>>>>),
   Claim(<<65>>, C_BOOLEAN, <<2>>), Claim(<<65>>, C_STRING, <<<<67, 0, 68>>>>),
   Claim(<<65>>, C_UINT64, <<>>)}
MCClaims ==
  ({"user_claims"} \X ClaimValues)
  \cup {<<"device_claims", Claim(<<65, 66>>, C_INT64, <<4, 6>>)>>}
MCLcs ==
  {[scopes |-> <<51, 52>>, layers |-> <<<<97>>, <<98, 66>>>>],
   [scopes |-> <<>>, layers |-> <<<<97>>, <<65>>>>],
   [scopes |-> <<51, 51>>, layers |-> <<>>], [scopes |-> <<NilGuid>>, layers |-> <<>>],
   [scopes |-> <<>>, layers |-> <<>>]}
MCNames == {<<>>, <<65>>, <<65, 66>>, NullArg}
MCControl == {{}, {4096}, {4096, DACL_PRESENT}}
=============================================================================

--------------------------- MODULE MCEventPolicy ---------------------------
(* EventPolicy with two types, one below the other. *)
EXTENDS EventPolicy

MCTypes == {<<"a">>, <<"a", "b">>}

=============================================================================

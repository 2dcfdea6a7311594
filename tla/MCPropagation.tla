--------------------------- MODULE MCPropagation ---------------------------
(* A container in a container in the root, and an object in the last. *)
EXTENDS Propagation, TLC

MCOrder == <<"top", "dir", "sub", "file">>
MCParent == "dir" :> "top" @@ "sub" :> "dir" @@ "file" :> "sub"
MCContainers == {"top", "dir", "sub"}
MCSids == {CREATOR_OWNER, CREATOR_GROUP, "root", "staff", "users", "alice", "bob"}
MCRights == Generic \cup {"r", "w", "x"}
MCMapping == [g \in Generic |-> IF g = "GA" THEN {"r", "w"} ELSE {"r"}]

Entry(flags, sid, mask) == [flags |-> flags, sidful |-> TRUE, sid |-> sid, mask |-> mask, more |-> 0]
Opaque(flags) == [Entry(flags, CREATOR_OWNER, {"GA"}) EXCEPT !.sidful = FALSE]

\* Every way to inherit, and some of them of every kind of ACE.
Singles ==
  {Entry(f, CREATOR_OWNER, {"GA", "x"}) : f \in SUBSET ALL_INHERIT_FLAGS}
  \cup UNION {{Entry(f, "users", {"r"}), Opaque(f)} : f \in {{"CI"}, {"OI", "NP"}, {"OI", "CI", "IO"}}}

Descriptor(dacl, sacl, control, owner) ==
  [owner |-> owner, group |-> "staff", control |-> control \cup {"SR"},
   acl |-> [dacl |-> dacl, sacl |-> sacl]]

Through == Entry({"OI", "CI"}, CREATOR_OWNER, {"GA"})
Wide == [Through EXCEPT !.more = MaxAcl - 7]
MCTops ==
  {Descriptor(<<a>>, Absent, {}, "root") : a \in Singles}
  \cup {Descriptor(d, <<Through>>, {}, "root") :
          d \in {Absent, <<Wide>>, <<Through, CutAce>>, <<Entry({"OI", "IO"}, CREATOR_GROUP, {"r"}), Through>>}}

Old == Entry({"ID", "CI"}, "users", {"w"})
MCInners ==
  {Descriptor(d, Absent, {}, "alice") : d \in {Null, <<Entry({"CI", "OI", "NP"}, "users", {"x"}), Old>>}}
  \cup {Descriptor(Absent, <<Old>>, {}, None), Descriptor(<<Old>>, <<Old>>, {"SP"}, "alice")}

MCEdits == {Entry({"OI"}, CREATOR_OWNER, {"GR"}), CutAce}
=============================================================================

------------------------------ MODULE Inherit ------------------------------
(***************************************************************************)
(* The inheritance of ACEs, security/sddl/inherit.rs: what a list passes   *)
(* to a child, re-propagation to a child that exists, and the removal of   *)
(* inherited ACEs, over the builders of build.rs and the views of codec.rs *)
(* they are written with.                                                  *)
(*                                                                         *)
(* A descriptor is the record its bytes hold.  An ACE is its flags, whether*)
(* its type has a SID to rewrite, its SID, its rights and what else its    *)
(* body holds; lengths are in words of four bytes.                         *)
(***************************************************************************)
EXTENDS Integers, Sequences

CONSTANT MaxAcl     \* the words of the largest ACL; 16383, what 16 bits count

Failure(e) == [error |-> e]
None == "none"        \* no owner or group
CREATOR_OWNER == "CREATOR_OWNER"
CREATOR_GROUP == "CREATOR_GROUP"
Generic == {"GR", "GW", "GX", "GA"}
ALL_INHERIT_FLAGS == {"OI", "CI", "NP", "IO"}

\* Lists: Absent, Null (present, at offset 0), or ACEs.  An ACE that is not
\* well formed ends a list.
Mark(name) == [flags |-> {}, sidful |-> FALSE, sid |-> name, mask |-> {}, more |-> 0]
CutAce == Mark("bad")
Absent == <<Mark("absent")>>
Null == <<Mark("null")>>
IsList(l) == l \notin {Absent, Null}

SidWords(sid) == IF sid \in {CREATOR_OWNER, CREATOR_GROUP} THEN 3 ELSE 7
BodyWords(ace) == 1 + SidWords(ace.sid) + ace.more
MostWords == MaxAcl - 1

-----------------------------------------------------------------------------
(* codec.rs: the views. *)

\* SecurityDescriptor::dacl and ::sacl: a list to read, or none.
ListOf(sd, which) == IF IsList(sd.acl[which]) THEN sd.acl[which] ELSE Absent

\* AceIter: the ACEs up to the first that is malformed, and whether there is one.
Readable(l) ==
  LET bad == {i \in 1..Len(l) : l[i] = CutAce}
  IN  IF bad = {} THEN l ELSE SubSeq(l, 1, (CHOOSE i \in bad : \A j \in bad : i <= j) - 1)
Malformed(l) == \E i \in 1..Len(l) : l[i] = CutAce

-----------------------------------------------------------------------------
(* build.rs. *)

AclWords(l) ==
  LET upto[i \in 0..Len(l)] == IF i = 0 THEN 2 ELSE upto[i - 1] + 1 + BodyWords(l[i])
  IN  upto[Len(l)]

\* Mutant: the size of a list is not looked at.
BuildAnySize(owner, group, acl, control) ==
  [owner |-> owner, group |-> group, control |-> control \cup {"SR"}, acl |-> acl]

\* SdBuilder::build, from what its setters were given.
Build(owner, group, acl, control) ==
  IF \E which \in DOMAIN acl : acl[which] # Absent /\ AclWords(acl[which]) > MaxAcl
  THEN Failure("Encode")
  ELSE [owner |-> owner, group |-> group, control |-> control \cup {"SR"}, acl |-> acl]

-----------------------------------------------------------------------------
(* A child is [container, owner, group, mapping]; mapping gives each generic *)
(* right the rights it stands for, or is the empty function for none.       *)

HasMapping(child) == DOMAIN child.mapping # {}

resolvable(ace, child) ==
  /\ ace.sidful
  /\ \/ ace.sid \in {CREATOR_OWNER, CREATOR_GROUP}
     \/ HasMapping(child) /\ ace.mask \cap Generic # {}

map_mask(mask, mapping) ==
  (mask \ Generic) \cup UNION {mapping[g] : g \in mask \cap Generic}

Stands(sid, child) ==
  IF sid = CREATOR_OWNER /\ child.owner # None THEN child.owner
  ELSE IF sid = CREATOR_GROUP /\ child.group # None THEN child.group ELSE sid

\* A copy resolved for the child; left as written where it has no room.
Resolved(ace, flags, child) ==
  LET new == [ace EXCEPT !.flags = flags, !.sid = Stands(@, child),
                         !.mask = IF HasMapping(child) THEN map_mask(@, child.mapping) ELSE @]
  IN  IF ace.sidful /\ BodyWords(new) <= MostWords THEN new ELSE [ace EXCEPT !.flags = flags]
Verbatim(ace, flags) == [ace EXCEPT !.flags = flags]

\* Mutant: an ACE for the objects inside reaches a container as effective.
ChildFlagsEffective(f, container) ==
  LET marked == (f \cup {"ID"}) \ {"IO"}
  IN  IF "NP" \in f \/ ~container THEN marked \ ALL_INHERIT_FLAGS ELSE marked

\* The flags of the copy.
ChildFlags(f, container) ==
  LET marked == (f \cup {"ID"}) \ {"IO"}
      through == container /\ "OI" \in f /\ "CI" \notin f /\ "NP" \notin f
  IN  IF "NP" \in f \/ ~container THEN marked \ ALL_INHERIT_FLAGS
      ELSE IF through THEN marked \cup {"IO"} ELSE marked

PassesTo(f, container) ==
  /\ "OI" \in f \/ ("CI" \in f /\ container)
  /\ ~(container /\ "CI" \notin f /\ "NP" \in f)

\* Mutant: what is passed on is resolved for the container it goes through.
PassedResolved(ace, child) ==
  LET flags == ChildFlags(ace.flags, child.container)
  IN  IF ~PassesTo(ace.flags, child.container) THEN <<>>
      ELSE IF resolvable(ace, child) THEN <<Resolved(ace, flags, child)>>
      ELSE <<Verbatim(ace, flags)>>

\* What one ACE of the parent gives the child: nothing, one, or an ACE that
\* applies and another that goes on.
Passed(ace, child) ==
  LET flags == ChildFlags(ace.flags, child.container)
      applies == "IO" \notin flags
      goes_on == flags \cap {"OI", "CI"} # {}
  IN  IF ~PassesTo(ace.flags, child.container) THEN <<>>
      ELSE IF ~resolvable(ace, child) THEN <<Verbatim(ace, flags)>>
      ELSE (IF applies THEN <<Resolved(ace, flags \ ALL_INHERIT_FLAGS, child)>> ELSE <<>>)
           \o (IF goes_on THEN <<Verbatim(ace, flags \cup {"IO"})>> ELSE <<>>)

Flattened(seqs) ==
  LET upto[i \in 0..Len(seqs)] == IF i = 0 THEN <<>> ELSE upto[i - 1] \o seqs[i]
  IN  upto[Len(seqs)]

inherited_aces(parent_acl, child) ==
  LET readable == Readable(parent_acl)
  IN  Flattened([i \in 1..Len(readable) |-> Passed(readable[i], child)])

Explicit(ace) == "ID" \notin ace.flags

\* Those that are not inherited, in their order.
Explicits(l) == Flattened([i \in 1..Len(l) |-> IF Explicit(l[i]) THEN <<l[i]>> ELSE <<>>])

\* Mutant: inherit-only ACEs the child had are kept beside the new ones.
ListKeepsThrough(child, parent, redo, facts) ==
  IF child # Absent /\ Malformed(child) THEN Failure("Parse")
  ELSE IF ~redo THEN [list |-> child]
  ELSE LET passed == IF parent = Absent THEN <<>> ELSE inherited_aces(parent, facts)
       IN  IF child = Absent /\ passed = <<>> THEN [list |-> Absent]
           ELSE [list |-> (IF child = Absent THEN <<>>
                           ELSE SelectSeq(child, LAMBDA a : Explicit(a) \/ "IO" \in a.flags)) \o passed]

\* One of the child's lists as re-propagation leaves it.
list(child, parent, redo, facts) ==
  IF child # Absent /\ Malformed(child) THEN Failure("Parse")
  ELSE IF ~redo THEN [list |-> child]
  ELSE LET passed == IF parent = Absent THEN <<>> ELSE inherited_aces(parent, facts)
       IN  IF child = Absent /\ passed = <<>> THEN [list |-> Absent]
           ELSE [list |-> (IF child = Absent THEN <<>> ELSE Explicits(child)) \o passed]

ProtectedBit == [dacl |-> "DP", sacl |-> "SP"]
InheritedBit == [dacl |-> "DI", sacl |-> "SI"]
Kept == {"DP", "SP", "DI", "SI"}

\* Mutant: the child's protection is not looked at.
RedoAlways(sd, info, which) == which \in info

Redo(sd, info, which) == which \in info /\ ProtectedBit[which] \notin sd.control

\* The owner and the group are whole SIDs or absent here; "SR" is the bit that
\* says a descriptor is self-relative.
reinherit_with(parent, child, container, mapping, info) ==
  LET facts == [container |-> container, owner |-> child.owner, group |-> child.group,
                mapping |-> mapping]
      lists == [w \in {"dacl", "sacl"} |->
                  list(ListOf(child, w), ListOf(parent, w), Redo(child, info, w), facts)]
  IN  IF "SR" \notin child.control \/ \E w \in DOMAIN lists : "error" \in DOMAIN lists[w]
      THEN Failure("Parse")
      ELSE Build(child.owner, child.group, [w \in DOMAIN lists |-> lists[w].list],
                 (child.control \cap Kept)
                   \cup {InheritedBit[w] : w \in {v \in DOMAIN lists : Redo(child, info, v)}})

\* Mutant: the test of the filter is the wrong way round.
StripExplicit(sd, info) ==
  IF "SR" \notin sd.control THEN Failure("Parse")
  ELSE IF info = {} THEN sd
  ELSE IF \E w \in info : IsList(sd.acl[w]) /\ Malformed(sd.acl[w]) THEN Failure("Parse")
  ELSE [sd EXCEPT !.acl = [w \in DOMAIN @ |-> IF w \in info /\ IsList(@[w])
                                              THEN SelectSeq(@[w], LAMBDA a : ~Explicit(a)) ELSE @[w]]]

\* filter_acl, resolve_acl: a list selected is filtered, another copied.
strip_inherited_aces(sd, info) ==
  IF "SR" \notin sd.control THEN Failure("Parse")
  ELSE IF info = {} THEN sd
  ELSE IF \E w \in info : IsList(sd.acl[w]) /\ Malformed(sd.acl[w]) THEN Failure("Parse")
  ELSE [sd EXCEPT !.acl = [w \in DOMAIN @ |-> IF w \in info /\ IsList(@[w])
                                              THEN Explicits(@[w]) ELSE @[w]]]
=============================================================================

---------------------------- MODULE Propagation ----------------------------
(***************************************************************************)
(* A hierarchy whose descriptors are edited and re-propagated from the top *)
(* with reinherit_with, as the `sd propagate` walk over it does: one       *)
(* object after another, parents first, with changes in between.           *)
(***************************************************************************)
EXTENDS Inherit, Functions

CONSTANTS
  Sids, Rights, \* what ACEs name and grant
  Order,        \* the objects, parents before children; the first is the root
  Parent,       \* the parent of each but the root
  Containers,   \* those that are containers
  Tops,         \* descriptors the root may have
  Inners,       \* and the others at first
  Edits,        \* ACEs an edit may add to an object's DACL
  Owners,       \* owners an object may be given
  Mapping,      \* the object class's generic mapping
  MaxChanges      \* bound: changes

\* The descriptors there are: lists may be absent, NULL, or hold malformed ACEs.
WalkAces ==
  [flags : SUBSET (ALL_INHERIT_FLAGS \cup {"ID"}), sidful : BOOLEAN, sid : Sids,
   mask : SUBSET Rights, more : Nat]
Lists == {Absent, Null} \cup Seq(WalkAces \cup {CutAce})
Descriptors ==
  [owner : Sids \cup {None}, group : Sids \cup {None},
   control : SUBSET {"SR", "DP", "SP", "DI", "SI"}, acl : [{"dacl", "sacl"} -> Lists]]

ASSUME PropagationAssumption ==
  /\ {Absent[1].sid, Null[1].sid} \cap Sids = {} /\ Owners \subseteq Sids
  /\ Tops \cup Inners \subseteq Descriptors /\ Edits \subseteq WalkAces \cup {CutAce}
  /\ Mapping \in [Generic -> SUBSET Rights]
  /\ \A i, j \in 1..Len(Order) : Order[i] = Order[j] => i = j
  /\ Order \in Seq(Range(Order)) /\ Order # <<>>
  /\ \A i \in 2..Len(Order) : \E j \in 1..(i - 1) : Parent[Order[i]] = Order[j]
  /\ Parent \in [Range(Tail(Order)) -> Range(Order)] /\ Containers \subseteq Range(Order)
  /\ \A o \in DOMAIN Parent : Parent[o] \in Containers
  /\ MaxAcl \in Nat /\ MaxChanges \in Nat

VARIABLES
  sd,           \* the descriptor of each object
  walk,         \* the objects the walk has still to visit
  how,          \* what the walk was asked: a mapping or none, and which lists
  settled,      \* lists a whole walk has gone over with nothing edited since it began
  changes

walkVars == <<sd, walk, how, settled, changes>>
Objects == Range(Order)
Root == Order[1]

WalkStart(tops, inners) ==
  /\ \E top \in tops, inner \in inners : sd = [o \in Objects |-> IF o = Root THEN top ELSE inner]
  /\ walk = <<>> /\ settled = {} /\ changes = 0
  /\ how = [mapping |-> <<>>, info |-> {}, clean |-> TRUE]

WalkInit == WalkStart(Tops, Inners)

Change(o, new) ==
  /\ changes < MaxChanges /\ changes' = changes + 1
  /\ new # sd[o] /\ sd' = [sd EXCEPT ![o] = new]
  /\ settled' = {} /\ how' = [how EXCEPT !.clean = FALSE] /\ UNCHANGED walk

\* peios_file_set_sd and its like, on what the object has.
AddAce(o, ace) ==
  /\ Absent # ListOf(sd[o], "dacl")
  /\ Change(o, [sd[o] EXCEPT !.acl.dacl = <<ace>> \o @])
Chown(o, owner) == Change(o, [sd[o] EXCEPT !.owner = owner])
Protect(o) == Change(o, [sd[o] EXCEPT !.control = @ \cup {"DP"}])
Unprotect(o) == Change(o, [sd[o] EXCEPT !.control = @ \ {"DP"}])
Strip(o, info) ==
  LET new == strip_inherited_aces(sd[o], info)
  IN  "error" \notin DOMAIN new /\ Change(o, new)

Begin(mapping, info) ==
  /\ walk = <<>> /\ walk' = Tail(Order)
  /\ how' = [mapping |-> mapping, info |-> info, clean |-> TRUE]
  /\ settled' = {} /\ UNCHANGED <<sd, changes>>

Again(o) == reinherit_with(sd[Parent[o]], sd[o], o \in Containers, how.mapping, how.info)

\* The next object; an error ends the walk.
Visit ==
  LET o == Head(walk)
      new == Again(o)
  IN  /\ walk # <<>>
      /\ IF "error" \in DOMAIN new
         THEN walk' = <<>> /\ UNCHANGED <<sd, settled>>
         ELSE /\ sd' = [sd EXCEPT ![o] = new]
              /\ walk' = Tail(walk)
              /\ settled' = IF Tail(walk) = <<>> /\ how.clean THEN how.info ELSE {}
      /\ UNCHANGED <<how, changes>>

WalkNext ==
  \/ Visit
  \/ \E m \in {<<>>, Mapping}, info \in {{"dacl"}, {"dacl", "sacl"}} : Begin(m, info)
  \/ \E o \in Objects :
       \/ \E ace \in Edits : AddAce(o, ace)
       \/ \E w \in Owners : Chown(o, w)
       \/ Protect(o) \/ Unprotect(o)
       \/ \E info \in SUBSET {"dacl", "sacl"} : Strip(o, info)

WalkSpec == WalkInit /\ [][WalkNext]_walkVars

-----------------------------------------------------------------------------
(***************************************************************************)
(* What inheritance means, without going through the objects in between.   *)
(***************************************************************************)
Ancestors(o) ==
  LET up[n \in 0..Len(Order)] ==
        IF n = 0 THEN <<o>>
        ELSE LET last == up[n - 1][Len(up[n - 1])]
             IN  IF last = Root THEN up[n - 1] ELSE Append(up[n - 1], Parent[last])
  IN  Tail(up[Len(Order)])

InheritedAndEffective(ace) == "ID" \in ace.flags /\ "IO" \notin ace.flags

Closed(o, w) == o = Root \/ ProtectedBit[w] \in sd[o].control

\* The ancestors an object inherits from: up to the first that is protected.
Sources(o, w) ==
  LET up == Ancestors(o)
      stop == CHOOSE i \in 1..Len(up) : Closed(up[i], w) /\ \A j \in 1..(i - 1) : ~Closed(up[j], w)
  IN  SubSeq(up, 1, stop)

\* The ACEs that start at an ancestor rather than pass through it.
Own(o, w) ==
  LET l == Readable(ListOf(sd[o], w))
  IN  IF ListOf(sd[o], w) = Absent THEN <<>>
      ELSE IF Closed(o, w) THEN l ELSE Explicits(l)

\* An ACE takes effect d levels down on an object it is for, if it goes that far.
TakesEffect(ace, o, d) ==
  /\ (IF o \in Containers THEN "CI" ELSE "OI") \in ace.flags
  /\ d = 1 \/ "NP" \notin ace.flags

Effect(ace, o) ==
  LET child == [container |-> FALSE, owner |-> sd[o].owner, group |-> sd[o].group,
                mapping |-> how.mapping]
      as == IF resolvable(ace, child) THEN Resolved(ace, {}, child) ELSE ace
  IN  <<as.sid, as.mask>>

(***************************************************************************)
(* After a walk of reinherit_with and nothing edited meanwhile, the        *)
(* inherited ACEs in effect on an object are those of its ancestors that   *)
(* are for its kind and go that far down, nearest ancestor first, with     *)
(* CREATOR OWNER, CREATOR GROUP and generic rights resolved for this very  *)
(* object, whatever containers they came through.                          *)
(***************************************************************************)
ReachExact ==
  \A w \in settled, o \in DOMAIN Parent :
    ~Closed(o, w) =>
      LET got == SelectSeq(IF ListOf(sd[o], w) = Absent THEN <<>> ELSE sd[o].acl[w], InheritedAndEffective)
          from == Sources(o, w)
          due == Flattened([d \in 1..Len(from) |->
                   SelectSeq(Own(from[d], w), LAMBDA ace : TakesEffect(ace, o, d))])
      IN  [i \in 1..Len(got) |-> <<got[i].sid, got[i].mask>>]
            = [i \in 1..Len(due) |-> Effect(due[i], o)]

(***************************************************************************)
(* strip_inherited_aces before reinherit_with makes no difference to what  *)
(* the latter leaves in a list.                                            *)
(***************************************************************************)
StripFirst ==
  \A o \in DOMAIN Parent, w \in {"dacl", "sacl"} :
    LET stripped == strip_inherited_aces(sd[o], {w})
        re(child) == reinherit_with(sd[Parent[o]], child, o \in Containers, <<>>, {w})
    IN  ~Closed(o, w) /\ "error" \notin DOMAIN stripped => re(stripped) = re(sd[o])

(***************************************************************************)
(* reinherit_with keeps the explicit ACEs of an object in their order, its *)
(* owner and group, and whole the lists that are protected or were not     *)
(* selected; what it writes its size field can hold, and where that cannot *)
(* be, every descriptor stays as it was.                                   *)
(***************************************************************************)
VisitKeeps ==
  [][walk # <<>> /\ walk' # walk =>
       \A o \in Objects :
         /\ sd'[o].owner = sd[o].owner /\ sd'[o].group = sd[o].group
         /\ sd[o].control \cap {"DP", "SP"} \subseteq sd'[o].control
         /\ \A w \in {"dacl", "sacl"} :
              LET old == ListOf(sd[o], w) new == ListOf(sd'[o], w)
              IN  IF w \notin how.info \/ ProtectedBit[w] \in sd[o].control THEN new = old
                  ELSE Explicits(new) = Explicits(old) \/ old = Absent
         /\ sd'[o] # sd[o] => /\ walk' = Tail(walk)
                              /\ \A w \in {"dacl", "sacl"} :
                                   LET new == ListOf(sd'[o], w)
                                   IN  new # Absent => ~(AclWords(new) > MaxAcl)]_walkVars
=============================================================================

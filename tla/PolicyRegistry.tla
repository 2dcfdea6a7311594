--------------------------- MODULE PolicyRegistry ---------------------------
(***************************************************************************)
(* The registry under Machine\Generic, as the emission policy of           *)
(* src/event/policy.rs uses it: the keys on the way to and below           *)
(* Machine\Generic\Events, their Enabled values, and the watch records     *)
(* that changes put on the descriptors the policy handle holds.  The       *)
(* registry (LCS) is external to the repository.                           *)
(*                                                                         *)
(* A handle holds at most two watched descriptors, one on Events and one   *)
(* on an ancestor.  A record is abstracted to what classify_records makes  *)
(* of it: "changed", and "gone" for the deletion of the watched key itself *)
(* (or a malformed record).                                                *)
(***************************************************************************)
EXTENDS Integers, Sequences, FiniteSets

CONSTANTS
  Types,        \* the event types asked for, as sequences of segments
  Envs,         \* the environments looked at, each a set of what may happen in it
  MaxChanges    \* bound: changes of the registry

ASSUME RegistryAssumption ==
  /\ Types \subseteq Seq(STRING) \ {<<>>}
  /\ Envs \subseteq SUBSET {"generic", "events", "setting", "access", "arm", "read", "walk"}
  /\ MaxChanges \in Nat

\* The keys on the paths of the types; <<>> is Events.
Paths == UNION {{SubSeq(t, 1, d) : d \in 0..Len(t)} : t \in Types}

VARIABLES
  env,          \* what may happen around the handle; it never changes
  generic,      \* Machine\Generic exists
  events,       \* which Events key there is: 0 for none, a deleted one never comes back
  created,      \* how many there have been
  tree,         \* what each key under Events holds
  denied,       \* opening Events fails with EACCES
  changes,      \* how many changes there have been
  root, root_watched, ancestor,   \* the handle's descriptors and watches
  root_news, ancestor_news        \* records not yet read from them

registry == <<env, generic, events, created, tree, denied, changes>>
news == <<root_news, ancestor_news>>

Absent == [p \in Paths |-> "absent"]

RegistryTypeOK ==
  /\ env \in Envs
  /\ generic \in BOOLEAN
  /\ events \in 0..created
  /\ created \in Nat
  /\ tree \in [Paths -> {"absent", "unset", "off", "on"}]
  /\ denied \in BOOLEAN
  /\ changes \in 0..MaxChanges
  /\ root_news \subseteq {"changed", "gone"}
  /\ ancestor_news \subseteq {"changed", "gone"}

\* What the environment does not change is there and readable from the start.
RegistryInit ==
  /\ env \in Envs
  /\ generic \in IF "generic" \in env THEN BOOLEAN ELSE {TRUE}
  /\ events \in IF "events" \in env THEN {0, 1} ELSE {1}
  /\ events = 1 => generic
  /\ created = events
  /\ tree \in {Absent, [Absent EXCEPT ![<<>>] = "unset"]}
  /\ tree = Absent <=> events = 0
  /\ denied = FALSE
  /\ changes = 0
  /\ root_news = {}
  /\ ancestor_news = {}

-----------------------------------------------------------------------------
\* A change is recorded on a watch of Events (a subtree watch), on a watch of
\* the parent of the key that came or went, and on one of the key itself.
Record(onRoot, onAncestor) ==
  /\ root_news' = IF root_watched /\ root = events THEN root_news \cup onRoot ELSE root_news
  /\ ancestor_news' = ancestor_news \cup onAncestor

Changing ==
  /\ changes < MaxChanges
  /\ changes' = changes + 1
  /\ UNCHANGED env

Parent(p) == SubSeq(p, 1, Len(p) - 1)

\* A value or a key below Events is set, created or deleted.
ChangeSetting(p, v) ==
  /\ "setting" \in env
  /\ events # 0 /\ tree[p] # v
  /\ p = <<>> => v # "absent"
  /\ p # <<>> => tree[Parent(p)] # "absent"
  /\ v = "absent" => \A q \in Paths : q # <<>> /\ Parent(q) = p => tree[q] = "absent"
  /\ tree' = [tree EXCEPT ![p] = v]
  /\ Record({"changed"}, {})
  /\ UNCHANGED <<generic, events, created, denied>>

CreateEvents ==
  /\ "events" \in env
  /\ generic /\ events = 0
  /\ created' = created + 1
  /\ events' = created + 1
  /\ tree' = [tree EXCEPT ![<<>>] = "unset"]
  /\ Record({}, IF ancestor = "generic" THEN {"changed"} ELSE {})
  /\ UNCHANGED <<generic, denied>>

DeleteEvents ==
  /\ "events" \in env
  /\ events # 0
  /\ events' = 0
  /\ tree' = Absent
  /\ denied' = FALSE
  /\ Record({"changed", "gone"}, IF ancestor = "generic" THEN {"changed"} ELSE {})
  /\ UNCHANGED <<generic, created>>

CreateGeneric ==
  /\ "generic" \in env
  /\ ~generic
  /\ generic' = TRUE
  /\ Record({}, IF ancestor = "machine" THEN {"changed"} ELSE {})
  /\ UNCHANGED <<events, created, tree, denied>>

DeleteGeneric ==
  /\ "generic" \in env
  /\ generic /\ events = 0
  /\ generic' = FALSE
  /\ Record({}, CASE ancestor = "machine" -> {"changed"}
                  [] ancestor = "generic" -> {"changed", "gone"}
                  [] OTHER -> {})
  /\ UNCHANGED <<events, created, tree, denied>>

\* The security descriptor of Events changes; no watch reports that.
ChangeAccess ==
  /\ "access" \in env
  /\ events # 0
  /\ denied' = ~denied
  /\ UNCHANGED <<generic, events, created, tree, news>>

RegistryNext ==
  /\ Changing
  /\ \/ \E p \in Paths, v \in {"absent", "unset", "off", "on"} : ChangeSetting(p, v)
     \/ CreateEvents \/ DeleteEvents
     \/ CreateGeneric \/ DeleteGeneric
     \/ ChangeAccess

=============================================================================

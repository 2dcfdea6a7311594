---------------------------- MODULE EventPolicy ----------------------------
(***************************************************************************)
(* The emission-policy handle of src/event/policy.rs: open, enabled (with  *)
(* refresh, establish, the walk and the cache), close.  One thread uses a  *)
(* handle; every registry call it makes is a step of its own, so the       *)
(* registry (PolicyRegistry) can change between any two.                   *)
(*                                                                         *)
(* Some calls are taken together because nothing between them can be told  *)
(* apart: the reads of one drain, opening and arming an ancestor, opening  *)
(* a child and querying it (a key deleted in between fails the second call *)
(* and ends the walk, as a missing key does).                              *)
(*                                                                         *)
(* Any call may fail for want of access, memory or descriptors: a key that *)
(* cannot be opened ends the walk, one that cannot be queried is unset,    *)
(* and what the walk found is cached all the same.                         *)
(***************************************************************************)
EXTENDS PolicyRegistry

CONSTANTS
  CacheMax,     \* CACHE_MAX
  TTL,          \* UNWATCHED_TTL_NS, in ticks of the clock
  MaxTime       \* bound: the clock

ASSUME PolicyAssumption ==
  /\ CacheMax \in Nat \ {0}
  /\ TTL \in Nat \ {0}
  /\ MaxTime \in Nat

VARIABLES
  pc,
  cache, retry_at,              \* struct peios_event_policy, with root and ancestor
  type, tier,                   \* the call: its arguments,
  established,                  \* the time establish was called at,
  depth, setting,               \* the walk's position and what it found,
  answer,                       \* and what the call returns
  now,                          \* the clock
  called, quiet, changed_at,    \* history: when the call began, no change since;
                                \* the time of the last change;
  doubted                       \* the types whose setting is held from a failed call

handle == <<root, root_watched, ancestor, cache, retry_at>>
call == <<type, tier, established, depth, setting, answer>>
history == <<called, quiet, changed_at>>
vars == <<registry, news, pc, handle, call, now, history, doubted>>

Tiers == {"essential", "standard", "verbose", "debug"}
Establishing == {"open", "arm", "generic", "machine", "established"}
Ancestors == {"none", "generic", "machine"}
NoType == <<>>

\* Some when the setting is "on" or "off", None when it is "unset".
Settings == {"unset", "on", "off"}

decide(t, s) ==
  CASE t = "essential" -> "on"
    [] t = "standard" -> IF s = "unset" THEN "on" ELSE s
    [] t \in {"verbose", "debug"} -> IF s = "unset" THEN "off" ELSE s
    [] OTHER -> "einval"

TypeOK ==
  /\ RegistryTypeOK
  /\ pc \in {"closed", "idle", "refresh", "lookup", "walk", "return"} \cup Establishing
  /\ root \in 0..created /\ root_watched \in BOOLEAN /\ ancestor \in Ancestors
  /\ DOMAIN cache \subseteq Types /\ \A t \in DOMAIN cache : cache[t] \in Settings
  /\ Cardinality(DOMAIN cache) <= CacheMax
  /\ retry_at \in 0..(MaxTime + TTL)
  /\ type \in Types \cup {NoType} /\ tier \in Tiers \cup {"none", "unknown"}
  /\ established \in 0..MaxTime
  /\ depth \in Nat /\ setting \in Settings
  /\ answer \in {"none", "on", "off", "einval"}
  /\ now \in 0..MaxTime
  /\ called \in 0..MaxTime /\ quiet \in BOOLEAN /\ changed_at \in 0..MaxTime
  /\ doubted \subseteq Types

Init ==
  /\ RegistryInit
  /\ pc = "closed"
  /\ root = 0 /\ root_watched = FALSE /\ ancestor = "none"
  /\ cache = <<>> /\ retry_at = 0
  /\ type = NoType /\ tier = "none" /\ established = 0 /\ depth = 0 /\ setting = "unset"
  /\ answer = "none"
  /\ now = 0
  /\ called = 0 /\ quiet = FALSE /\ changed_at = 0
  /\ doubted = {}

-----------------------------------------------------------------------------
(* establish: open and watch what exists. *)

Establish ==
  /\ pc' = "open"
  /\ established' = now
  /\ root' = 0 /\ root_watched' = FALSE /\ ancestor' = "none"
  /\ cache' = <<>> /\ doubted' = {}
  /\ root_news' = {} /\ ancestor_news' = {}

\* The open of Events, the first time round and the second: Ok, ENOENT with
\* no ancestor yet, or any other error.
OpenRoot(fails) ==
  /\ pc = "open"
  /\ fails => "arm" \in env
  /\ CASE events # 0 /\ ~denied /\ ~fails -> root' = events /\ pc' = "arm"
       [] events = 0 /\ ancestor = "none" /\ ~fails -> pc' = "generic" /\ UNCHANGED root
       [] OTHER -> pc' = "established" /\ UNCHANGED root
  /\ doubted' = IF fails THEN Types ELSE doubted
  /\ UNCHANGED <<registry, news, root_watched, ancestor, cache, retry_at, call, now, history>>

\* Arming may fail (no memory, no watch to be had), and does on a deleted key.
\* Dropping the ancestor closes its descriptor, with the records on it.
ArmRoot(fails) ==
  /\ pc = "arm"
  /\ fails => "arm" \in env
  /\ root_watched' = (root = events /\ ~fails)
  /\ ancestor' = "none"
  /\ root_news' = {} /\ ancestor_news' = {}
  /\ pc' = "established"
  /\ UNCHANGED <<registry, root, cache, retry_at, call, now, history, doubted>>

WatchAncestor(key) ==
  /\ ancestor' = key
  /\ ancestor_news' = {}
  /\ pc' = "open"

ArmGeneric(fails) ==
  /\ pc = "generic"
  /\ fails => "arm" \in env
  /\ IF generic /\ ~fails
     THEN WatchAncestor("generic")
     ELSE pc' = "machine" /\ UNCHANGED <<ancestor, ancestor_news>>
  /\ UNCHANGED <<registry, root_news, root, root_watched, cache, retry_at, call, now, history, doubted>>

ArmMachine(fails) ==
  /\ pc = "machine"
  /\ fails => "arm" \in env
  /\ IF ~fails
     THEN WatchAncestor("machine")
     ELSE pc' = "established" /\ UNCHANGED <<ancestor, ancestor_news>>
  /\ UNCHANGED <<registry, root_news, root, root_watched, cache, retry_at, call, now, history, doubted>>

\* Mutant: an unwatched handle is not looked at again.
EstablishedForGood ==
  /\ pc = "established"
  /\ retry_at' = IF ~root_watched /\ ancestor = "none" THEN MaxTime + TTL ELSE retry_at
  /\ pc' = IF type = NoType THEN "idle" ELSE "lookup"
  /\ UNCHANGED <<registry, news, root, root_watched, ancestor, cache, call, now, history, doubted>>

\* Back to enabled(), or to the caller of open().
Established ==
  /\ pc = "established"
  /\ retry_at' = IF ~root_watched /\ ancestor = "none" THEN established + TTL ELSE retry_at
  /\ pc' = IF type = NoType THEN "idle" ELSE "lookup"
  /\ UNCHANGED <<registry, news, root, root_watched, ancestor, cache, call, now, history, doubted>>

-----------------------------------------------------------------------------
(* The calls. *)

PolicyOpen ==
  /\ pc = "closed"
  /\ Establish
  /\ UNCHANGED <<registry, retry_at, type, tier, depth, setting, answer, now, history>>

\* The handle is freed; its descriptors close with it.
DropHandle ==
  /\ pc' = "closed"
  /\ root' = 0 /\ root_watched' = FALSE /\ ancestor' = "none"
  /\ cache' = <<>> /\ doubted' = {} /\ retry_at' = 0
  /\ root_news' = {} /\ ancestor_news' = {}
  /\ established' = 0
  /\ UNCHANGED <<registry, type, tier, depth, setting, answer, now, history>>

PolicyOpenNoMemory == pc = "established" /\ type = NoType /\ DropHandle

PolicyClose == pc = "idle" /\ DropHandle

\* A malformed type is NoType here: EINVAL before the handle is touched, as an
\* unknown tier is; an essential event is on without a look at the registry.
Enabled(ty, ti) ==
  /\ pc = "idle"
  /\ type' = ty /\ tier' = ti
  /\ called' = now /\ quiet' = TRUE
  /\ CASE ty = NoType -> pc' = "return" /\ answer' = "einval"
       [] ty # NoType /\ ti = "essential" -> pc' = "return" /\ answer' = "on"
       [] ty # NoType /\ ti = "unknown" -> pc' = "return" /\ answer' = "einval"
       [] OTHER -> pc' = "refresh" /\ answer' = "none"
  /\ UNCHANGED <<registry, news, handle, established, depth, setting, now, changed_at, doubted>>

Return ==
  /\ pc = "return"
  /\ pc' = "idle"
  /\ type' = NoType /\ tier' = "none" /\ setting' = "unset" /\ depth' = 0
  /\ answer' = "none" /\ called' = 0 /\ quiet' = FALSE
  /\ UNCHANGED <<registry, news, handle, established, now, changed_at, doubted>>

-----------------------------------------------------------------------------
(* refresh: drain the watch, or look at the clock. *)

\* The records of the watched descriptor; a failing read counts as both.
Drained(fails) ==
  CASE fails -> {"changed", "gone"}
    [] ~fails /\ root_watched -> root_news
    [] OTHER -> ancestor_news

Refresh(fails) ==
  /\ pc = "refresh"
  /\ root_watched \/ ancestor # "none"
  /\ fails => "read" \in env
  /\ IF "gone" \in Drained(fails) \/ ("changed" \in Drained(fails) /\ ancestor # "none")
     THEN Establish /\ UNCHANGED retry_at
     ELSE /\ pc' = "lookup"
          /\ IF "changed" \in Drained(fails)
             THEN cache' = <<>> /\ doubted' = {} ELSE UNCHANGED <<cache, doubted>>
          /\ root_news' = IF root_watched THEN {} ELSE root_news
          /\ ancestor_news' = IF root_watched THEN ancestor_news ELSE {}
          /\ UNCHANGED <<root, root_watched, ancestor, retry_at, established>>
  /\ UNCHANGED <<registry, type, tier, depth, setting, answer, now, history>>

RefreshUnwatched ==
  /\ pc = "refresh"
  /\ ~root_watched /\ ancestor = "none"
  /\ IF now >= retry_at
     THEN Establish /\ UNCHANGED retry_at
     ELSE pc' = "lookup" /\ UNCHANGED <<news, handle, established, doubted>>
  /\ UNCHANGED <<registry, type, tier, depth, setting, answer, now, history>>

-----------------------------------------------------------------------------
(* setting, resolve and remember. *)

Lookup ==
  /\ pc = "lookup"
  /\ CASE root = 0 -> /\ pc' = "return" /\ answer' = decide(tier, "unset")
                      /\ UNCHANGED <<depth, setting, doubted>>
       [] root # 0 /\ type \in DOMAIN cache ->
                      /\ pc' = "return" /\ answer' = decide(tier, cache[type])
                      /\ UNCHANGED <<depth, setting, doubted>>
       [] OTHER -> /\ pc' = "walk" /\ depth' = 0 /\ setting' = "unset"
                   /\ doubted' = doubted \ {type}
                   /\ UNCHANGED answer
  /\ UNCHANGED <<registry, news, handle, type, tier, established, now, history>>

\* The key at this depth of the walk: open, and what its Enabled says.  The root is
\* open already; a call that fails does so on a key that is there.
Failures == {"none", "open", "query"}
MayFail(fails) ==
  fails # "none" => "walk" \in env /\ root = events /\ (fails = "open" => depth > 0)
Readable(fails) ==
  root = events /\ tree[SubSeq(type, 1, depth)] # "absent" /\ fails # "open"
Found(fails) ==
  IF Readable(fails) /\ fails # "query" /\ tree[SubSeq(type, 1, depth)] # "unset"
  THEN tree[SubSeq(type, 1, depth)] ELSE setting

\* Mutant: a full cache goes on growing.
RememberUnbounded(s) ==
  cache' = [t \in DOMAIN cache \cup {type} |-> IF t = type THEN s ELSE cache[t]]

\* A full cache is cleared; without memory the decision is not cached.
Remember(s) ==
  LET kept == IF Cardinality(DOMAIN cache) >= CacheMax THEN <<>> ELSE cache
  IN  \/ cache' = [t \in DOMAIN kept \cup {type} |-> IF t = type THEN s ELSE kept[t]]
      \/ cache' = kept

\* One key of the walk, which has found this so far; at its end that is remembered.
WalkKey(fails, found, remembered) ==
  /\ pc = "walk"
  /\ MayFail(fails)
  /\ setting' = found
  /\ doubted' = IF fails = "none" THEN doubted ELSE doubted \cup {type}
  /\ IF Readable(fails) /\ depth < Len(type)
     THEN depth' = depth + 1 /\ UNCHANGED <<pc, cache, answer>>
     ELSE /\ Remember(remembered)
          /\ answer' = decide(tier, found)
          /\ pc' = "return"
          /\ UNCHANGED depth
  /\ UNCHANGED <<registry, news, root, root_watched, ancestor, retry_at, type, tier, established,
                 now, history>>

\* Mutant: the first setting on the path wins.
WalkFirstWins(fails) ==
  LET found == IF setting = "unset" THEN Found(fails) ELSE setting
  IN  WalkKey(fails, found, found)

\* Mutant: what is cached is what was found above the last key.
WalkRemembersParent(fails) == WalkKey(fails, Found(fails), setting)

Walk(fails) == WalkKey(fails, Found(fails), Found(fails))

-----------------------------------------------------------------------------
Tick ==
  /\ now < MaxTime
  /\ now' = now + 1
  /\ UNCHANGED <<registry, news, pc, handle, call, history, doubted>>

Change ==
  /\ RegistryNext
  /\ quiet' = FALSE /\ changed_at' = now
  /\ UNCHANGED <<pc, handle, call, now, called, doubted>>

Thread ==
  \/ PolicyOpen \/ PolicyOpenNoMemory \/ PolicyClose
  \/ \E ty \in Types \cup {NoType}, ti \in Tiers \cup {"unknown"} : Enabled(ty, ti)
  \/ \E fails \in BOOLEAN : OpenRoot(fails) \/ ArmRoot(fails) \/ ArmGeneric(fails) \/ ArmMachine(fails)
  \/ Established
  \/ \E fails \in BOOLEAN : Refresh(fails)
  \/ RefreshUnwatched \/ Lookup \/ Return
  \/ \E fails \in Failures : Walk(fails)

Next == Thread \/ Change \/ Tick

Spec == Init /\ [][Next]_vars

-----------------------------------------------------------------------------
(***************************************************************************)
(* The setting a type has, stated directly: that of the deepest key on its *)
(* path that is set, all keys above it existing.                           *)
(***************************************************************************)
SetDepths(t) ==
  {d \in 0..Len(t) : /\ \A k \in 0..d : tree[SubSeq(t, 1, k)] # "absent"
                     /\ tree[SubSeq(t, 1, d)] \in {"on", "off"}}

Deepest(t) ==
  IF SetDepths(t) = {} THEN "unset"
  ELSE LET d == CHOOSE d \in SetDepths(t) : \A k \in SetDepths(t) : k <= d
       IN  tree[SubSeq(t, 1, d)]

\* The settings on the path of a type that can be reached, the tier's among them.
Reached(t) == {"unset"} \cup {tree[SubSeq(t, 1, d)] : d \in SetDepths(t)}

\* The setting a type may be taken to have: the deepest, or any on its path where a
\* call failed on the way to it.
Allows(t) == IF t \in doubted THEN Reached(t) ELSE {Deepest(t)}

Consulted == pc = "return" /\ type # NoType /\ tier \in Tiers \ {"essential"}

ByRegistry == \E s \in Allows(type) : answer = decide(tier, s)

\* The cache of a watched handle with no record pending is the registry: whatever
\* changed during a walk has put a record on the watch.  Where a call of the walk
\* failed it is at least a setting of the path as it is now.
CacheCoherent ==
  pc = "idle" /\ root_watched /\ root_news = {} =>
    \A t \in DOMAIN cache : cache[t] \in Allows(t)

\* A committed change applies to the very next decision: a watched handle that
\* decides while nothing changes gives the deepest setting, or the tier's; a failed
\* call of the walk may make that a setting further up, never one of the past.
WatchedFresh ==
  Consulted /\ quiet /\ root_watched => ByRegistry

\* A decision that begins a second after the last change is right whatever the
\* handle could open or watch: nothing stale is kept longer, no creation of
\* Events is missed for good.
SettledFresh ==
  Consulted /\ quiet /\ ~denied /\ called >= changed_at + TTL => ByRegistry

\* The same where Events is created only while it may be read and watched, under a
\* Machine\Generic that is there from the start: establish() leaves nothing unnoticed.
SettledWhereNoticed ==
  "generic" \notin env /\ ("events" \in env => env \cap {"access", "arm"} = {}) => SettledFresh

\* A handle watching an ancestor has a record pending once Events exists: the
\* comment on establish() says the second try is there "so that creation is
\* not missed".
CreationNoticed ==
  pc = "idle" /\ ancestor # "none" /\ events # 0 => ancestor_news # {}

=============================================================================

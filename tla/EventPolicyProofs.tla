------------------------- MODULE EventPolicyProofs -------------------------
(***************************************************************************)
(* Proofs about the emission-policy handle of src/event/policy.rs, for     *)
(* every set of types, every environment and number of changes, every      *)
(* CACHE_MAX and TTL: what the handle caches and what it decides agree     *)
(* with the registry, whatever changes between two of its registry calls.  *)
(*                                                                         *)
(* The properties speak of a handle at rest or a call that returns. IInv   *)
(* says why: what the handle keeps is Accurate (the watch would have told, *)
(* or nothing changed since establish() began), an accurate cache holds    *)
(* the deepest settings, and so does a walk for the part of its path that  *)
(* it has gone.  A setting held from a failed call is Sighted only: one of *)
(* the path, which need not be the deepest.                                *)
(***************************************************************************)
EXTENDS EventPolicy, FiniteSetTheorems, TLAPS

Opening == {"open", "arm", "generic", "machine"}

\* The watch reports every change of Events and everything below it, and there
\* is nothing to report.
Clean == root_watched /\ root_news = {}

\* What the handle keeps was read from the registry as it is now.
Accurate == Clean \/ (established > changed_at /\ root = events)

\* Where the handle is, between two registry calls.
Placed ==
  /\ pc \in {"refresh", "lookup", "walk"} => type \in Types
  /\ pc = "walk" => depth <= Len(type) /\ root # 0 /\ type \notin DOMAIN cache
  /\ pc = "arm" => root # 0
  /\ pc \in Establishing => cache = <<>>
  /\ pc \in {"open", "generic", "machine"} => root = 0
  /\ ancestor # "none" /\ pc # "arm" => root = 0
  /\ pc \in {"generic", "machine"} => ancestor = "none"

Shape == TypeOK /\ IsFiniteSet(DOMAIN cache) /\ Placed

\* The clock, and when an unwatched handle looks again.
Clocks ==
  /\ called <= now /\ established <= now /\ changed_at <= now
  /\ ~root_watched /\ ancestor = "none" /\ pc \notin Establishing \cup {"closed"}
       => retry_at = established + TTL

\* The watched key is the Events key there is, or its end has been recorded.
Watching ==
  root_watched =>
    /\ root # 0 /\ ancestor = "none" /\ pc \notin Opening \cup {"closed"}
    /\ root = events \/ "gone" \in root_news

\* What the environment leaves alone is as it was at the start.
Environment ==
  /\ events = 0 => tree = Absent
  /\ "generic" \notin env => generic
  /\ "events" \notin env => events # 0 /\ pc \notin {"generic", "machine"} /\ ancestor = "none"
  /\ "access" \notin env => ~denied

\* The hypothesis of SettledWhereNoticed.
Noticing == "generic" \notin env /\ ("events" \in env => env \cap {"access", "arm"} = {})

\* Where creation is noticed, a handle that watches an ancestor has a record
\* once there is an Events key, or is about to look for it.
Noticed ==
  Noticing =>
    /\ pc # "machine" /\ ancestor # "machine"
    /\ ancestor # "none" /\ pc \notin {"open", "arm"} => events = 0 \/ "changed" \in ancestor_news

\* establish() could not open Events, so every decision is by the tier.
Blind == root = 0 /\ Types \subseteq doubted

\* If nothing changed since establish() began.
Settled ==
  established > changed_at =>
    /\ pc = "open" /\ ancestor # "none" => events = 0
    /\ pc \in {"generic", "machine"} => events = 0
    /\ pc = "arm" => root = events
    /\ pc \notin Opening \cup {"closed"} => root = events \/ denied \/ Blind

\* The keys above depth exist and setting is that of one of them; of the deepest set
\* one where no call failed.
Key(t, k) == tree[SubSeq(t, 1, k)]
Sighted == setting = "unset" \/ \E d \in 0..(depth - 1) : setting # "unset" /\ Key(type, d) = setting
Exact ==
  \/ setting = "unset" /\ \A k \in 0..(depth - 1) : Key(type, k) = "unset"
  \/ \E d \in 0..(depth - 1) :
       /\ setting # "unset" /\ Key(type, d) = setting
       /\ \A k \in (d + 1)..(depth - 1) : Key(type, k) = "unset"
Passed == \A k \in 0..(depth - 1) : Key(type, k) # "absent"
Walked == Passed /\ Sighted /\ (type \notin doubted => Exact)

\* What is accurate agrees with the registry.
Coherent ==
  Accurate =>
    /\ \A t \in DOMAIN cache : cache[t] \in Allows(t)
    /\ pc = "walk" => Walked

\* A decision made while nothing changes has read what the watch recorded.
NewsRead ==
  pc \in {"lookup", "walk", "established"} \/ Consulted
    => (quiet /\ root_watched => root_news = {})

\* A decision that begins a TTL after the last change starts from what is there.
Entitled == Noticing /\ quiet /\ ~denied /\ called >= changed_at + TTL
Informed ==
  pc \in {"lookup", "walk"} /\ Entitled => Accurate \/ (root = 0 /\ events = 0) \/ Blind

\* establish() runs inside the call it serves.
Serving == pc \in Establishing /\ type # NoType => established >= called

IInv ==
  /\ Shape /\ Clocks /\ Watching /\ Environment /\ Noticed /\ Settled /\ Coherent
  /\ NewsRead /\ Informed /\ Serving /\ WatchedFresh /\ SettledWhereNoticed
-----------------------------------------------------------------------------
(* The handle's own steps keep the types. *)

USE RegistryAssumption, PolicyAssumption DEF registry, news, handle, call, history

\* The empty cache, whatever clears it.
LEMMA EmptyCache ==
  /\ DOMAIN <<>> = {}
  /\ IsFiniteSet(DOMAIN <<>>)
  /\ Cardinality(DOMAIN <<>>) = 0
<1>1. DOMAIN <<>> = {}
  OBVIOUS
<1>2. QED
  BY <1>1, FS_EmptySet

LEMMA DecideType ==
  ASSUME NEW t, NEW s \in Settings
  PROVE  decide(t, s) \in {"on", "off", "einval"}
BY DEF decide, Settings

\* remember() keeps the cache finite, typed and within CACHE_MAX.
LEMMA RememberType ==
  ASSUME NEW s \in Settings, Shape, type \in Types, Remember(s)
  PROVE  /\ DOMAIN cache' \subseteq Types /\ \A t \in DOMAIN cache' : cache'[t] \in Settings
         /\ IsFiniteSet(DOMAIN cache') /\ Cardinality(DOMAIN cache') <= CacheMax
<1> DEFINE kept == IF Cardinality(DOMAIN cache) >= CacheMax THEN <<>> ELSE cache
<1>1. /\ DOMAIN kept \subseteq Types /\ \A t \in DOMAIN kept : kept[t] \in Settings
      /\ IsFiniteSet(DOMAIN kept) /\ Cardinality(DOMAIN kept) < CacheMax
      /\ Cardinality(DOMAIN kept) \in Nat
  <2>1. CASE Cardinality(DOMAIN cache) >= CacheMax
    BY <2>1, EmptyCache
  <2>2. CASE ~(Cardinality(DOMAIN cache) >= CacheMax)
    <3>1. Cardinality(DOMAIN cache) \in Nat
      BY FS_CardinalityType DEF Shape
    <3>2. QED
      BY <2>2, <3>1 DEF Shape, TypeOK
  <2>3. QED
    BY <2>1, <2>2
<1>2. \/ cache' = [t \in DOMAIN kept \cup {type} |-> IF t = type THEN s ELSE kept[t]]
      \/ cache' = kept
  BY DEF Remember
<1> HIDE DEF kept
<1>3. CASE cache' = [t \in DOMAIN kept \cup {type} |-> IF t = type THEN s ELSE kept[t]]
  <2>1. DOMAIN cache' = DOMAIN kept \cup {type}
    BY <1>3
  <2>2. /\ IsFiniteSet(DOMAIN kept \cup {type})
        /\ Cardinality(DOMAIN kept \cup {type}) <= Cardinality(DOMAIN kept) + 1
    <3> DEFINE D == DOMAIN kept
    <3>1. IsFiniteSet(D) /\ Cardinality(D) \in Nat
      BY <1>1
    <3> HIDE DEF D
    <3>2. /\ IsFiniteSet(D \cup {type})
          /\ Cardinality(D \cup {type}) = Cardinality(D) \/ Cardinality(D \cup {type}) = Cardinality(D) + 1
      BY <3>1, FS_AddElement
    <3>3. Cardinality(D \cup {type}) <= Cardinality(D) + 1
      BY <3>1, <3>2
    <3>4. QED
      BY <3>2, <3>3 DEF D
  <2>3. DOMAIN cache' \subseteq Types
    BY <1>1, <2>1
  <2>4. \A t \in DOMAIN cache' : cache'[t] \in Settings
    BY <1>1, <1>3, <2>1
  <2>5. Cardinality(DOMAIN kept \cup {type}) \in Nat
    BY <2>2, FS_CardinalityType
  <2>6. Cardinality(DOMAIN kept \cup {type}) <= CacheMax
    BY <1>1, <2>2, <2>5
  <2>7. QED
    BY <2>1, <2>2, <2>3, <2>4, <2>6
<1>4. CASE cache' = kept
  BY <1>1, <1>4
<1>5. QED
  BY <1>2, <1>3, <1>4

LEMMA FoundType ==
  ASSUME Shape, pc = "walk", NEW fails
  PROVE  Found(fails) \in Settings
<1>1. SubSeq(type, 1, depth) \in Paths
  BY DEF Shape, Placed, TypeOK, Paths
<1>2. QED
  BY <1>1 DEF Shape, TypeOK, RegistryTypeOK, Found, Readable, Settings

\* A well-formed cache.
CacheType ==
  /\ DOMAIN cache \subseteq Types /\ \A t \in DOMAIN cache : cache[t] \in Settings
  /\ IsFiniteSet(DOMAIN cache) /\ Cardinality(DOMAIN cache) <= CacheMax

LEMMA CacheCleared ==
  ASSUME cache' = <<>>
  PROVE  CacheType'
BY EmptyCache DEF CacheType

LEMMA CacheKept ==
  ASSUME Shape, cache' = cache
  PROVE  CacheType'
BY DEF CacheType, Shape, TypeOK

\* The types of the handle and its calls, variable by variable.
WatchType ==
  /\ root_watched \in BOOLEAN /\ ancestor \in Ancestors
  /\ root_news \subseteq {"changed", "gone"} /\ ancestor_news \subseteq {"changed", "gone"}

HandleType ==
  /\ pc \in {"closed", "idle", "refresh", "lookup", "walk", "return"} \cup Establishing
  /\ root \in 0..created
  /\ retry_at \in 0..(MaxTime + TTL)
  /\ established \in 0..MaxTime
  /\ now \in 0..MaxTime
  /\ called \in 0..MaxTime /\ changed_at \in 0..MaxTime

CallType ==
  /\ type \in Types \cup {NoType} /\ tier \in Tiers \cup {"none", "unknown"}
  /\ depth \in Nat /\ setting \in Settings
  /\ answer \in {"none", "on", "off", "einval"}
  /\ quiet \in BOOLEAN
  /\ doubted \subseteq Types

LEMMA WatchTypeThread ==
  ASSUME Shape, Thread \/ Tick
  PROVE  WatchType'
<1>a. WatchType
  BY DEF WatchType, Shape, TypeOK, RegistryTypeOK
<1> USE <1>a DEF WatchType, Ancestors
<1>1. CASE PolicyOpen
  BY <1>1 DEF PolicyOpen, Establish
<1>2. CASE PolicyOpenNoMemory \/ PolicyClose
  BY <1>2 DEF PolicyOpenNoMemory, PolicyClose, DropHandle
<1>3. ASSUME NEW ty \in Types \cup {NoType}, NEW ti \in Tiers \cup {"unknown"}, Enabled(ty, ti)
      PROVE  WatchType'
  BY <1>3 DEF Enabled
<1>4. ASSUME NEW fails \in BOOLEAN, ArmRoot(fails)
      PROVE  WatchType'
  BY <1>4 DEF ArmRoot
<1>5. ASSUME NEW fails \in BOOLEAN, ArmGeneric(fails)
      PROVE  WatchType'
  BY <1>5 DEF ArmGeneric, WatchAncestor
<1>6. ASSUME NEW fails \in BOOLEAN, ArmMachine(fails)
      PROVE  WatchType'
  BY <1>6 DEF ArmMachine, WatchAncestor
<1>7. ASSUME NEW fails \in BOOLEAN, Refresh(fails)
      PROVE  WatchType'
  BY <1>7 DEF Refresh, Establish, Drained
<1>8. ASSUME NEW fails \in BOOLEAN, OpenRoot(fails)
      PROVE  WatchType'
  BY <1>8 DEF OpenRoot
<1>9. CASE Established
  BY <1>9 DEF Established
<1>10. CASE RefreshUnwatched
  BY <1>10 DEF RefreshUnwatched, Establish
<1>11. CASE Lookup
  BY <1>11 DEF Lookup
<1>12. ASSUME NEW fails \in Failures, Walk(fails)
      PROVE  WatchType'
  BY <1>12 DEF Walk, WalkKey
<1>13. CASE Return
  BY <1>13 DEF Return
<1>14. CASE Tick
  BY <1>14 DEF Tick
<1>15. QED
  <2> HIDE DEF WatchType
  <2>1. QED
    BY <1>1, <1>2, <1>3, <1>4, <1>5, <1>6, <1>7, <1>8, <1>9, <1>10, <1>11, <1>12, <1>13, <1>14 DEF Thread

LEMMA HandleTypeThread ==
  ASSUME Shape, Thread \/ Tick
  PROVE  HandleType'
<1>a. HandleType /\ created \in Nat /\ events \in 0..created
  BY DEF HandleType, Shape, TypeOK, RegistryTypeOK
<1> USE <1>a DEF HandleType, Establishing
<1>1. CASE PolicyOpen
  BY <1>1 DEF PolicyOpen, Establish
<1>2. CASE PolicyOpenNoMemory \/ PolicyClose
  BY <1>2 DEF PolicyOpenNoMemory, PolicyClose, DropHandle
<1>3. ASSUME NEW ty \in Types \cup {NoType}, NEW ti \in Tiers \cup {"unknown"}, Enabled(ty, ti)
      PROVE  HandleType'
  BY <1>3 DEF Enabled
<1>4. ASSUME NEW fails \in BOOLEAN, ArmRoot(fails)
      PROVE  HandleType'
  BY <1>4 DEF ArmRoot
<1>5. ASSUME NEW fails \in BOOLEAN, ArmGeneric(fails)
      PROVE  HandleType'
  BY <1>5 DEF ArmGeneric, WatchAncestor
<1>6. ASSUME NEW fails \in BOOLEAN, ArmMachine(fails)
      PROVE  HandleType'
  BY <1>6 DEF ArmMachine, WatchAncestor
<1>7. ASSUME NEW fails \in BOOLEAN, Refresh(fails)
      PROVE  HandleType'
  BY <1>7 DEF Refresh, Establish, Drained
<1>8. ASSUME NEW fails \in BOOLEAN, OpenRoot(fails)
      PROVE  HandleType'
  BY <1>8 DEF OpenRoot
<1>9. CASE Established
  BY <1>9 DEF Established
<1>10. CASE RefreshUnwatched
  BY <1>10 DEF RefreshUnwatched, Establish
<1>11. CASE Lookup
  BY <1>11 DEF Lookup
<1>12. ASSUME NEW fails \in Failures, Walk(fails)
      PROVE  HandleType'
  BY <1>12 DEF Walk, WalkKey
<1>13. CASE Return
  BY <1>13 DEF Return
<1>14. CASE Tick
  BY <1>14 DEF Tick
<1>15. QED
  <2> HIDE DEF HandleType
  <2>1. QED
    BY <1>1, <1>2, <1>3, <1>4, <1>5, <1>6, <1>7, <1>8, <1>9, <1>10, <1>11, <1>12, <1>13, <1>14 DEF Thread

LEMMA CallTypeThread ==
  ASSUME Shape, Thread \/ Tick
  PROVE  CallType'
<1>a. CallType /\ "unset" \in Settings
  BY DEF CallType, Shape, TypeOK, Settings
<1> USE <1>a DEF CallType
<1>1. CASE PolicyOpen
  BY <1>1 DEF PolicyOpen, Establish
<1>2. CASE PolicyOpenNoMemory \/ PolicyClose
  BY <1>2 DEF PolicyOpenNoMemory, PolicyClose, DropHandle
<1>3. ASSUME NEW ty \in Types \cup {NoType}, NEW ti \in Tiers \cup {"unknown"}, Enabled(ty, ti)
      PROVE  CallType'
  BY <1>3 DEF Enabled
<1>4. ASSUME NEW fails \in BOOLEAN, ArmRoot(fails)
      PROVE  CallType'
  BY <1>4 DEF ArmRoot
<1>5. ASSUME NEW fails \in BOOLEAN, ArmGeneric(fails)
      PROVE  CallType'
  BY <1>5 DEF ArmGeneric, WatchAncestor
<1>6. ASSUME NEW fails \in BOOLEAN, ArmMachine(fails)
      PROVE  CallType'
  BY <1>6 DEF ArmMachine, WatchAncestor
<1>7. ASSUME NEW fails \in BOOLEAN, Refresh(fails)
      PROVE  CallType'
  BY <1>7 DEF Refresh, Establish, Drained
<1>8. ASSUME NEW fails \in BOOLEAN, OpenRoot(fails)
      PROVE  CallType'
  BY <1>8 DEF OpenRoot
<1>9. CASE Established
  BY <1>9 DEF Established
<1>10. CASE RefreshUnwatched
  BY <1>10 DEF RefreshUnwatched, Establish
<1>11. CASE Lookup
  <2>1. type \in DOMAIN cache => cache[type] \in Settings
    BY DEF Shape, TypeOK
  <2>2. QED
    BY <1>11, <2>1, DecideType DEF Lookup
<1>12. ASSUME NEW fails \in Failures, Walk(fails)
      PROVE  CallType'
  <2>1. Found(fails) \in Settings /\ type \in Types
    BY <1>12, FoundType DEF Walk, WalkKey, Shape, Placed
  <2>2. answer' \in {"none", "on", "off", "einval"} /\ setting' \in Settings
    BY <1>12, <2>1, DecideType DEF Walk, WalkKey
  <2>3. doubted' \subseteq Types /\ depth' \in Nat
    BY <1>12, <2>1 DEF Walk, WalkKey
  <2>4. QED
    BY <1>12, <2>2, <2>3 DEF Walk, WalkKey
<1>13. CASE Return
  BY <1>13 DEF Return
<1>14. CASE Tick
  BY <1>14 DEF Tick
<1>15. QED
  <2> HIDE DEF CallType
  <2>1. QED
    BY <1>1, <1>2, <1>3, <1>4, <1>5, <1>6, <1>7, <1>8, <1>9, <1>10, <1>11, <1>12, <1>13, <1>14 DEF Thread

LEMMA PlacedThread ==
  ASSUME Shape, Thread \/ Tick
  PROVE  Placed'
<1>a. /\ Placed /\ depth \in Nat /\ type \in Types \cup {NoType}
      /\ \A t \in Types : Len(t) \in Nat
  BY DEF Shape, TypeOK
<1> USE <1>a DEF Placed, Establishing
<1>1. CASE PolicyOpen
  BY <1>1 DEF PolicyOpen, Establish
<1>2. CASE PolicyOpenNoMemory \/ PolicyClose
  BY <1>2 DEF PolicyOpenNoMemory, PolicyClose, DropHandle
<1>3. ASSUME NEW ty \in Types \cup {NoType}, NEW ti \in Tiers \cup {"unknown"}, Enabled(ty, ti)
      PROVE  Placed'
  BY <1>3 DEF Enabled
<1>4. ASSUME NEW fails \in BOOLEAN, ArmRoot(fails)
      PROVE  Placed'
  BY <1>4 DEF ArmRoot
<1>5. ASSUME NEW fails \in BOOLEAN, ArmGeneric(fails)
      PROVE  Placed'
  BY <1>5 DEF ArmGeneric, WatchAncestor
<1>6. ASSUME NEW fails \in BOOLEAN, ArmMachine(fails)
      PROVE  Placed'
  BY <1>6 DEF ArmMachine, WatchAncestor
<1>7. ASSUME NEW fails \in BOOLEAN, Refresh(fails)
      PROVE  Placed'
  BY <1>7 DEF Refresh, Establish, Drained
<1>8. ASSUME NEW fails \in BOOLEAN, OpenRoot(fails)
      PROVE  Placed'
  BY <1>8 DEF OpenRoot
<1>9. CASE Established
  BY <1>9 DEF Established
<1>10. CASE RefreshUnwatched
  BY <1>10 DEF RefreshUnwatched, Establish
<1>11. CASE Lookup
  BY <1>11 DEF Lookup
<1>12. ASSUME NEW fails \in Failures, Walk(fails)
      PROVE  Placed'
  BY <1>12 DEF Walk, WalkKey
<1>13. CASE Return
  BY <1>13 DEF Return
<1>14. CASE Tick
  BY <1>14 DEF Tick
<1>15. QED
  <2> HIDE DEF Placed
  <2>1. QED
    BY <1>1, <1>2, <1>3, <1>4, <1>5, <1>6, <1>7, <1>8, <1>9, <1>10, <1>11, <1>12, <1>13, <1>14 DEF Thread

LEMMA CacheTypeThread ==
  ASSUME Shape, Thread \/ Tick
  PROVE  CacheType'
<1>1. ASSUME NEW fails \in Failures, Walk(fails)
      PROVE  CacheType'
  <2>1. Found(fails) \in Settings /\ type \in Types
    BY <1>1, FoundType DEF Walk, WalkKey, Shape, Placed
  <2>2. Remember(Found(fails)) \/ cache' = cache
    BY <1>1 DEF Walk, WalkKey
  <2>3. QED
    BY <2>1, <2>2, RememberType, CacheKept DEF CacheType
<1>2. CASE cache' = cache \/ cache' = <<>>
  BY <1>2, CacheCleared, CacheKept
<1>3. PolicyOpen \/ PolicyOpenNoMemory \/ PolicyClose => cache' = <<>>
  BY DEF PolicyOpen, Establish, PolicyOpenNoMemory, PolicyClose, DropHandle
<1>4. Established \/ Lookup \/ Return \/ Tick => cache' = cache
  BY DEF Established, Lookup, Return, Tick
<1>5. \A ty, ti : Enabled(ty, ti) => cache' = cache
  BY DEF Enabled
<1>6. \A fails : OpenRoot(fails) \/ ArmRoot(fails) \/ ArmGeneric(fails) \/ ArmMachine(fails) => cache' = cache
  BY DEF OpenRoot, ArmRoot, ArmGeneric, ArmMachine
<1>7. \A fails : Refresh(fails) => cache' = cache \/ cache' = <<>>
  BY DEF Refresh, Establish
<1>8. RefreshUnwatched => cache' = cache \/ cache' = <<>>
  BY DEF RefreshUnwatched, Establish
<1>9. QED
  BY <1>1, <1>2, <1>3, <1>4, <1>5, <1>6, <1>7, <1>8 DEF Thread

\* The handle changes nothing in the registry.
LEMMA ThreadReads ==
  ASSUME Thread \/ Tick
  PROVE  UNCHANGED registry
<1>1. PolicyOpen \/ PolicyOpenNoMemory \/ PolicyClose => UNCHANGED registry
  BY DEF PolicyOpen, PolicyOpenNoMemory, PolicyClose, DropHandle
<1>2. Established \/ RefreshUnwatched \/ Lookup \/ Return \/ Tick => UNCHANGED registry
  BY DEF Established, RefreshUnwatched, Lookup, Return, Tick
<1>3. \A ty, ti : Enabled(ty, ti) => UNCHANGED registry
  BY DEF Enabled
<1>4. \A fails : OpenRoot(fails) \/ ArmRoot(fails) \/ ArmGeneric(fails) \/ ArmMachine(fails)
                    \/ Refresh(fails) \/ Walk(fails)
        => UNCHANGED registry
  BY DEF OpenRoot, ArmRoot, ArmGeneric, ArmMachine, Refresh, Walk, WalkKey
<1>5. QED
  BY <1>1, <1>2, <1>3, <1>4 DEF Thread

LEMMA ShapeThread ==
  ASSUME Shape, Thread \/ Tick
  PROVE  Shape'
<1>1. WatchType' /\ HandleType' /\ CallType' /\ CacheType' /\ Placed'
  BY WatchTypeThread, HandleTypeThread, CallTypeThread, CacheTypeThread, PlacedThread
<1>2. RegistryTypeOK'
  BY <1>1, ThreadReads DEF WatchType, Shape, TypeOK, RegistryTypeOK
<1>3. TypeOK'
  BY <1>1, <1>2 DEF WatchType, HandleType, CallType, CacheType, TypeOK
<1>4. QED
  BY <1>1, <1>3 DEF Shape, CacheType

-----------------------------------------------------------------------------
(* What a change of the registry does to a handle. *)

LEMMA RegistryKeeps ==
  ASSUME RegistryTypeOK, RegistryNext
  PROVE  RegistryTypeOK' /\ created <= created'
<1> USE DEF RegistryTypeOK, Changing, Record
<1>1. env' = env /\ changes' \in 0..MaxChanges
  BY DEF RegistryNext
<1>2. ASSUME NEW p \in Paths, NEW v \in {"absent", "unset", "off", "on"}, ChangeSetting(p, v)
      PROVE  RegistryTypeOK' /\ created <= created'
  <2>1. tree' \in [Paths -> {"absent", "unset", "off", "on"}]
    BY <1>2 DEF ChangeSetting
  <2>2. QED
    BY <1>1, <1>2, <2>1 DEF ChangeSetting
<1>3. CASE CreateEvents
  <2>1. tree' \in [Paths -> {"absent", "unset", "off", "on"}]
    BY <1>3 DEF CreateEvents
  <2>2. created' \in Nat /\ events' \in 0..created' /\ created <= created'
    BY <1>3 DEF CreateEvents
  <2>3. root_news' \subseteq {"changed", "gone"} /\ ancestor_news' \subseteq {"changed", "gone"}
    BY <1>3 DEF CreateEvents
  <2>4. QED
    BY <1>1, <1>3, <2>1, <2>2, <2>3 DEF CreateEvents
<1>4. CASE DeleteEvents
  <2>1. denied' \in BOOLEAN
    BY <1>4 DEF DeleteEvents
  <2>2. tree' \in [Paths -> {"absent", "unset", "off", "on"}]
    BY <1>4 DEF DeleteEvents, Absent
  <2>3. root_news' \subseteq {"changed", "gone"} /\ ancestor_news' \subseteq {"changed", "gone"}
    BY <1>4 DEF DeleteEvents
  <2>4. QED
    BY <1>1, <1>4, <2>1, <2>2, <2>3 DEF DeleteEvents
<1>5. CASE CreateGeneric \/ DeleteGeneric
  <2>1. generic' \in BOOLEAN
    BY <1>5 DEF CreateGeneric, DeleteGeneric
  <2>2. root_news' \subseteq {"changed", "gone"} /\ ancestor_news' \subseteq {"changed", "gone"}
    BY <1>5 DEF CreateGeneric, DeleteGeneric
  <2>3. QED
    BY <1>1, <1>5, <2>1, <2>2 DEF CreateGeneric, DeleteGeneric
<1>6. CASE ChangeAccess
  <2>1. denied' \in BOOLEAN
    BY <1>6 DEF ChangeAccess
  <2>2. QED
    BY <1>1, <1>6, <2>1 DEF ChangeAccess
<1>7. QED
  <2> HIDE DEF RegistryTypeOK, Changing, Record
  <2>1. QED
    BY <1>2, <1>3, <1>4, <1>5, <1>6 DEF RegistryNext

LEMMA ShapeChange ==
  ASSUME Shape, Change
  PROVE  Shape'
<1>1. RegistryTypeOK' /\ created <= created'
  BY RegistryKeeps DEF Change, Shape, TypeOK
<1>2. quiet' \in BOOLEAN
  BY DEF Change
<1>3. root' \in 0..created'
  BY <1>1 DEF Change, Shape, TypeOK, RegistryTypeOK
<1>4. TypeOK'
  BY <1>1, <1>2, <1>3 DEF Change, Shape, TypeOK
<1>5. QED
  BY <1>4 DEF Shape, Placed, Change

\* A change is recorded on the watch it concerns, and what is recorded stays.
Recorded ==
  /\ root_news \subseteq root_news' /\ ancestor_news \subseteq ancestor_news'
  /\ root_watched /\ root = events /\ root # 0 =>
       /\ root = events' \/ "gone" \in root_news'
       /\ root_news' = {} => UNCHANGED <<tree, events>>
  /\ ancestor = "generic" /\ events = 0 /\ events' # 0 => "changed" \in ancestor_news'

\* What the environment rules out does not happen.
Allowed ==
  /\ UNCHANGED env
  /\ events = 0 /\ events' = 0 => UNCHANGED tree
  /\ events # 0 /\ events' = 0 => tree' = Absent
  /\ "generic" \notin env => UNCHANGED generic
  /\ "events" \notin env => UNCHANGED events
  /\ "access" \notin env => UNCHANGED denied \/ denied' = FALSE

LEMMA ChangeEffect ==
  ASSUME Shape, Change
  PROVE  Recorded /\ Allowed
<1> USE DEF Shape, TypeOK, RegistryTypeOK, Record
<1>1. UNCHANGED <<env, root, root_watched, ancestor>>
  BY DEF Change, RegistryNext, Changing
<1> USE <1>1 DEF Recorded, Allowed
<1>2. ASSUME NEW p \in Paths, NEW v \in {"absent", "unset", "off", "on"}, ChangeSetting(p, v)
      PROVE  Recorded /\ Allowed
  BY <1>2 DEF ChangeSetting
<1>3. CASE CreateEvents
  <2>1. "events" \in env /\ events = 0 /\ events' # 0
    BY <1>3 DEF CreateEvents
  <2>2. root_news' = root_news
    BY <1>3 DEF CreateEvents
  <2>3. /\ ancestor_news \subseteq ancestor_news'
        /\ ancestor = "generic" => "changed" \in ancestor_news'
    BY <1>3 DEF CreateEvents
  <2>4. Recorded
    BY <2>1, <2>2, <2>3
  <2>5. Allowed
    BY <1>3, <2>1 DEF CreateEvents
  <2>6. QED
    BY <2>4, <2>5
<1>4. CASE DeleteEvents
  BY <1>4 DEF DeleteEvents
<1>5. CASE CreateGeneric \/ DeleteGeneric
  BY <1>5 DEF CreateGeneric, DeleteGeneric
<1>6. CASE ChangeAccess
  BY <1>6 DEF ChangeAccess
<1>7. QED
  <2> HIDE DEF Recorded, Allowed
  <2>1. QED
    BY <1>2, <1>3, <1>4, <1>5, <1>6 DEF Change, RegistryNext

-----------------------------------------------------------------------------
(* Step by step: the clocks, the watch and the environment. *)

LEMMA ClocksStep ==
  ASSUME IInv, Next
  PROVE  Clocks'
<1>a. Clocks /\ now \in Nat /\ called \in Nat /\ established \in Nat /\ changed_at \in Nat
  BY DEF IInv, Shape, TypeOK
<1> USE <1>a DEF Clocks, Establishing
<1>1. CASE PolicyOpen
  BY <1>1 DEF PolicyOpen, Establish
<1>2. CASE PolicyOpenNoMemory \/ PolicyClose
  BY <1>2 DEF PolicyOpenNoMemory, PolicyClose, DropHandle
<1>3. ASSUME NEW ty \in Types \cup {NoType}, NEW ti \in Tiers \cup {"unknown"}, Enabled(ty, ti)
      PROVE  Clocks'
  BY <1>3 DEF Enabled
<1>4. ASSUME NEW fails \in BOOLEAN, ArmRoot(fails)
      PROVE  Clocks'
  BY <1>4 DEF ArmRoot
<1>5. ASSUME NEW fails \in BOOLEAN, ArmGeneric(fails)
      PROVE  Clocks'
  BY <1>5 DEF ArmGeneric, WatchAncestor
<1>6. ASSUME NEW fails \in BOOLEAN, ArmMachine(fails)
      PROVE  Clocks'
  BY <1>6 DEF ArmMachine, WatchAncestor
<1>7. ASSUME NEW fails \in BOOLEAN, Refresh(fails)
      PROVE  Clocks'
  BY <1>7 DEF Refresh, Establish, Drained
<1>8. ASSUME NEW fails \in BOOLEAN, OpenRoot(fails)
      PROVE  Clocks'
  BY <1>8 DEF OpenRoot
<1>9. CASE Established
  BY <1>9 DEF Established
<1>10. CASE RefreshUnwatched
  BY <1>10 DEF RefreshUnwatched, Establish
<1>11. CASE Lookup
  BY <1>11 DEF Lookup
<1>12. ASSUME NEW fails \in Failures, Walk(fails)
      PROVE  Clocks'
  BY <1>12 DEF Walk, WalkKey
<1>13. CASE Return
  BY <1>13 DEF Return
<1>14. CASE Tick
  BY <1>14 DEF Tick
<1>15. CASE Change
  BY <1>15 DEF Change
<1>16. QED
  <2> HIDE DEF Clocks
  <2>1. QED
    BY <1>1, <1>2, <1>3, <1>4, <1>5, <1>6, <1>7, <1>8, <1>9, <1>10, <1>11, <1>12, <1>13, <1>14, <1>15 DEF Next, Thread

LEMMA WatchingStep ==
  ASSUME IInv, Next
  PROVE  Watching'
<1>a. Watching /\ Shape /\ (pc = "arm" => root # 0)
  BY DEF IInv, Shape, Placed
<1> USE <1>a DEF Watching, Opening
<1>1. CASE PolicyOpen
  BY <1>1 DEF PolicyOpen, Establish
<1>2. CASE PolicyOpenNoMemory \/ PolicyClose
  BY <1>2 DEF PolicyOpenNoMemory, PolicyClose, DropHandle
<1>3. ASSUME NEW ty \in Types \cup {NoType}, NEW ti \in Tiers \cup {"unknown"}, Enabled(ty, ti)
      PROVE  Watching'
  BY <1>3 DEF Enabled
<1>4. ASSUME NEW fails \in BOOLEAN, ArmRoot(fails)
      PROVE  Watching'
  BY <1>4 DEF ArmRoot
<1>5. ASSUME NEW fails \in BOOLEAN, ArmGeneric(fails)
      PROVE  Watching'
  BY <1>5 DEF ArmGeneric, WatchAncestor
<1>6. ASSUME NEW fails \in BOOLEAN, ArmMachine(fails)
      PROVE  Watching'
  BY <1>6 DEF ArmMachine, WatchAncestor
<1>7. ASSUME NEW fails \in BOOLEAN, Refresh(fails)
      PROVE  Watching'
  BY <1>7 DEF Refresh, Establish, Drained
<1>8. ASSUME NEW fails \in BOOLEAN, OpenRoot(fails)
      PROVE  Watching'
  BY <1>8 DEF OpenRoot
<1>9. CASE Established
  BY <1>9 DEF Established
<1>10. CASE RefreshUnwatched
  BY <1>10 DEF RefreshUnwatched, Establish
<1>11. CASE Lookup
  BY <1>11 DEF Lookup
<1>12. ASSUME NEW fails \in Failures, Walk(fails)
      PROVE  Watching'
  BY <1>12 DEF Walk, WalkKey
<1>13. CASE Return
  BY <1>13 DEF Return
<1>14. CASE Tick
  BY <1>14 DEF Tick
<1>15. CASE Change
  BY <1>15, ChangeEffect DEF Change, Recorded
<1>16. QED
  <2> HIDE DEF Watching
  <2>1. QED
    BY <1>1, <1>2, <1>3, <1>4, <1>5, <1>6, <1>7, <1>8, <1>9, <1>10, <1>11, <1>12, <1>13, <1>14, <1>15 DEF Next, Thread

LEMMA EnvironmentStep ==
  ASSUME IInv, Next
  PROVE  Environment'
<1>a. Environment /\ Shape
  BY DEF IInv
<1> USE <1>a DEF Environment
<1>1. CASE PolicyOpen
  BY <1>1 DEF PolicyOpen, Establish
<1>2. CASE PolicyOpenNoMemory \/ PolicyClose
  BY <1>2 DEF PolicyOpenNoMemory, PolicyClose, DropHandle
<1>3. ASSUME NEW ty \in Types \cup {NoType}, NEW ti \in Tiers \cup {"unknown"}, Enabled(ty, ti)
      PROVE  Environment'
  BY <1>3 DEF Enabled
<1>4. ASSUME NEW fails \in BOOLEAN, ArmRoot(fails)
      PROVE  Environment'
  BY <1>4 DEF ArmRoot
<1>5. ASSUME NEW fails \in BOOLEAN, ArmGeneric(fails)
      PROVE  Environment'
  BY <1>5 DEF ArmGeneric, WatchAncestor
<1>6. ASSUME NEW fails \in BOOLEAN, ArmMachine(fails)
      PROVE  Environment'
  BY <1>6 DEF ArmMachine, WatchAncestor
<1>7. ASSUME NEW fails \in BOOLEAN, Refresh(fails)
      PROVE  Environment'
  BY <1>7 DEF Refresh, Establish, Drained
<1>8. ASSUME NEW fails \in BOOLEAN, OpenRoot(fails)
      PROVE  Environment'
  BY <1>8 DEF OpenRoot
<1>9. CASE Established
  BY <1>9 DEF Established
<1>10. CASE RefreshUnwatched
  BY <1>10 DEF RefreshUnwatched, Establish
<1>11. CASE Lookup
  BY <1>11 DEF Lookup
<1>12. ASSUME NEW fails \in Failures, Walk(fails)
      PROVE  Environment'
  BY <1>12 DEF Walk, WalkKey
<1>13. CASE Return
  BY <1>13 DEF Return
<1>14. CASE Tick
  BY <1>14 DEF Tick
<1>15. CASE Change
  <2>1. Allowed /\ UNCHANGED <<pc, ancestor>>
    BY <1>15, ChangeEffect DEF Change
  <2>2. events' = 0 => tree' = Absent'
    BY <2>1 DEF Allowed, Absent
  <2>3. /\ "generic" \notin env' => generic'
        /\ "access" \notin env' => ~denied'
    BY <2>1 DEF Allowed
  <2>4. QED
    BY <2>1, <2>2, <2>3 DEF Allowed
<1>16. QED
  <2> HIDE DEF Environment
  <2>1. QED
    BY <1>1, <1>2, <1>3, <1>4, <1>5, <1>6, <1>7, <1>8, <1>9, <1>10, <1>11, <1>12, <1>13, <1>14, <1>15 DEF Next, Thread

LEMMA NoticedStep ==
  ASSUME IInv, Next
  PROVE  Noticed'
<1>a. Noticed /\ Environment /\ Shape /\ ancestor \in Ancestors /\ ancestor_news \subseteq {"changed", "gone"}
  BY DEF IInv, Shape, TypeOK, RegistryTypeOK
<1> USE <1>a DEF Noticed, Noticing, Environment, Ancestors
<1>1. CASE PolicyOpen
  BY <1>1 DEF PolicyOpen, Establish
<1>2. CASE PolicyOpenNoMemory \/ PolicyClose
  BY <1>2 DEF PolicyOpenNoMemory, PolicyClose, DropHandle
<1>3. ASSUME NEW ty \in Types \cup {NoType}, NEW ti \in Tiers \cup {"unknown"}, Enabled(ty, ti)
      PROVE  Noticed'
  BY <1>3 DEF Enabled
<1>4. ASSUME NEW fails \in BOOLEAN, ArmRoot(fails)
      PROVE  Noticed'
  BY <1>4 DEF ArmRoot
<1>5. ASSUME NEW fails \in BOOLEAN, ArmGeneric(fails)
      PROVE  Noticed'
  BY <1>5 DEF ArmGeneric, WatchAncestor
<1>6. ASSUME NEW fails \in BOOLEAN, ArmMachine(fails)
      PROVE  Noticed'
  BY <1>6 DEF ArmMachine, WatchAncestor
<1>7. ASSUME NEW fails \in BOOLEAN, Refresh(fails)
      PROVE  Noticed'
  BY <1>7 DEF Refresh, Establish, Drained
<1>8. ASSUME NEW fails \in BOOLEAN, OpenRoot(fails)
      PROVE  Noticed'
  BY <1>8 DEF OpenRoot
<1>9. CASE Established
  BY <1>9 DEF Established
<1>10. CASE RefreshUnwatched
  BY <1>10 DEF RefreshUnwatched, Establish
<1>11. CASE Lookup
  BY <1>11 DEF Lookup
<1>12. ASSUME NEW fails \in Failures, Walk(fails)
      PROVE  Noticed'
  BY <1>12 DEF Walk, WalkKey
<1>13. CASE Return
  BY <1>13 DEF Return
<1>14. CASE Tick
  BY <1>14 DEF Tick
<1>15. CASE Change
  <2>1. Allowed /\ Recorded /\ UNCHANGED <<pc, ancestor>>
    BY <1>15, ChangeEffect DEF Change
  <2>2. QED
    BY <2>1 DEF Allowed, Recorded, Ancestors
<1>16. QED
  <2> HIDE DEF Noticed
  <2>1. QED
    BY <1>1, <1>2, <1>3, <1>4, <1>5, <1>6, <1>7, <1>8, <1>9, <1>10, <1>11, <1>12, <1>13, <1>14, <1>15 DEF Next, Thread

LEMMA SettledStep ==
  ASSUME IInv, Next
  PROVE  Settled'
<1>a. /\ Settled /\ established <= now /\ changed_at <= now
      /\ now \in Nat /\ established \in Nat /\ changed_at \in Nat
      /\ pc \in {"open", "generic", "machine"} => root = 0
      /\ root_watched => root # 0
      /\ doubted \subseteq Types /\ type \in Types \cup {NoType}
  BY DEF IInv, Shape, Placed, TypeOK, Clocks, Watching
<1> USE <1>a DEF Settled, Opening, Blind
<1>1. CASE PolicyOpen
  BY <1>1 DEF PolicyOpen, Establish
<1>2. CASE PolicyOpenNoMemory \/ PolicyClose
  BY <1>2 DEF PolicyOpenNoMemory, PolicyClose, DropHandle
<1>3. ASSUME NEW ty \in Types \cup {NoType}, NEW ti \in Tiers \cup {"unknown"}, Enabled(ty, ti)
      PROVE  Settled'
  BY <1>3 DEF Enabled
<1>4. ASSUME NEW fails \in BOOLEAN, ArmRoot(fails)
      PROVE  Settled'
  BY <1>4 DEF ArmRoot
<1>5. ASSUME NEW fails \in BOOLEAN, ArmGeneric(fails)
      PROVE  Settled'
  BY <1>5 DEF ArmGeneric, WatchAncestor
<1>6. ASSUME NEW fails \in BOOLEAN, ArmMachine(fails)
      PROVE  Settled'
  BY <1>6 DEF ArmMachine, WatchAncestor
<1>7. ASSUME NEW fails \in BOOLEAN, Refresh(fails)
      PROVE  Settled'
  BY <1>7 DEF Refresh, Establish, Drained
<1>8. ASSUME NEW fails \in BOOLEAN, OpenRoot(fails)
      PROVE  Settled'
  BY <1>8 DEF OpenRoot
<1>9. CASE Established
  BY <1>9 DEF Established
<1>10. CASE RefreshUnwatched
  BY <1>10 DEF RefreshUnwatched, Establish
<1>11. CASE Lookup
  BY <1>11 DEF Lookup
<1>12. ASSUME NEW fails \in Failures, Walk(fails)
      PROVE  Settled'
  BY <1>12 DEF Walk, WalkKey
<1>13. CASE Return
  BY <1>13 DEF Return
<1>14. CASE Tick
  BY <1>14 DEF Tick
<1>15. CASE Change
  BY <1>15 DEF Change
<1>16. QED
  <2> HIDE DEF Settled
  <2>1. QED
    BY <1>1, <1>2, <1>3, <1>4, <1>5, <1>6, <1>7, <1>8, <1>9, <1>10, <1>11, <1>12, <1>13, <1>14, <1>15 DEF Next, Thread

-----------------------------------------------------------------------------
(* The walk finds the deepest setting. *)

LEMMA DeepestKept ==
  ASSUME UNCHANGED tree, NEW t
  PROVE  Deepest(t)' = Deepest(t)
<1>1. SetDepths(t)' = SetDepths(t)
  BY DEF SetDepths
<1>2. QED
  BY <1>1 DEF Deepest

LEMMA AllowsKept ==
  ASSUME UNCHANGED tree, NEW t, (t \in doubted') = (t \in doubted)
  PROVE  Allows(t)' = Allows(t)
<1>1. SetDepths(t)' = SetDepths(t)
  BY DEF SetDepths
<1>2. Reached(t)' = Reached(t) /\ Deepest(t)' = Deepest(t)
  BY <1>1 DEF Reached, Deepest
<1>3. QED
  BY <1>2 DEF Allows

\* A set key that no set key lies below is the deepest.
LEMMA DeepestIs ==
  ASSUME NEW t \in Types, NEW d \in SetDepths(t), \A k \in SetDepths(t) : k <= d
  PROVE  Deepest(t) = Key(t, d)
<1>1. SetDepths(t) \subseteq Int
  BY DEF SetDepths
<1> DEFINE e == CHOOSE e \in SetDepths(t) : \A k \in SetDepths(t) : k <= e
<1>2. e \in SetDepths(t) /\ \A k \in SetDepths(t) : k <= e
  OBVIOUS
<1>3. Deepest(t) = Key(t, e)
  BY DEF Deepest, Key
<1> HIDE DEF e
<1>4. e = d
  BY <1>1, <1>2
<1>5. QED
  BY <1>3, <1>4

LEMMA DeepestNone ==
  ASSUME NEW t, SetDepths(t) = {}
  PROVE  Deepest(t) = "unset"
BY DEF Deepest

\* Without Events nothing is set.
LEMMA NothingSet ==
  ASSUME tree = Absent, NEW t \in Types
  PROVE  Deepest(t) = "unset"
<1>1. \A k \in 0..Len(t) : SubSeq(t, 1, k) \in Paths
  BY DEF Paths
<1>2. SetDepths(t) = {}
  BY <1>1 DEF SetDepths, Absent
<1>3. QED
  BY <1>2, DeepestNone

\* What a step of the walk reads.
LEMMA WalkReads ==
  ASSUME NEW fails \in Failures, Walk(fails), root = events
  PROVE  /\ UNCHANGED <<type, tree>> /\ setting' = Found(fails)
         /\ Found(fails) \in {setting, Key(type, depth)}
         /\ fails = "none" =>
              Found(fails) = IF Key(type, depth) \in {"absent", "unset"} THEN setting ELSE Key(type, depth)
         /\ Found(fails) # setting => Readable(fails) /\ Key(type, depth) # "unset"
         /\ Readable(fails) => Key(type, depth) # "absent"
         /\ type \notin doubted' => fails = "none" /\ type \notin doubted
BY DEF Walk, WalkKey, Found, Readable, Key, Failures

\* One key further down.
LEMMA WalkOn ==
  ASSUME Shape, Walked, root = events, NEW fails \in Failures, Walk(fails),
         Readable(fails) /\ depth < Len(type)
  PROVE  Walked'
<1>0. /\ UNCHANGED <<type, tree>> /\ setting' = Found(fails)
      /\ Found(fails) \in {setting, Key(type, depth)}
      /\ fails = "none" =>
           Found(fails) = IF Key(type, depth) \in {"absent", "unset"} THEN setting ELSE Key(type, depth)
      /\ Key(type, depth) # "absent"
      /\ type \notin doubted' => fails = "none" /\ type \notin doubted
  BY WalkReads
<1>1. depth' = depth + 1 /\ depth \in Nat
  BY DEF Walk, WalkKey, Shape, TypeOK
<1>2. \A k : Key(type, k)' = Key(type, k)
  BY <1>0 DEF Key
<1>5. 0..(depth' - 1) = 0..(depth - 1) \cup {depth}
  BY <1>1
<1>6. Passed'
  <2>1. \A k \in 0..(depth' - 1) : Key(type, k)' # "absent"
    BY <1>0, <1>2, <1>5 DEF Walked, Passed
  <2>2. QED
    BY <1>0, <2>1 DEF Passed
<1>7. Sighted'
  <2>1. CASE setting' = "unset"
    BY <2>1 DEF Sighted
  <2>2. CASE setting' # "unset" /\ setting' = Key(type, depth)
    <3> PICK n : n = depth
      OBVIOUS
    <3>1. n \in 0..(depth' - 1) /\ Key(type, n)' = setting'
      BY <1>2, <1>5, <2>2
    <3>2. QED
      BY <1>0, <2>2, <3>1 DEF Sighted
  <2>3. CASE setting' # "unset" /\ setting' = setting
    <3>1. PICK d \in 0..(depth - 1) : Key(type, d) = setting
      BY <2>3 DEF Walked, Sighted
    <3>2. d \in 0..(depth' - 1) /\ Key(type, d)' = setting'
      BY <1>2, <1>5, <2>3, <3>1
    <3>3. QED
      BY <1>0, <2>3, <3>2 DEF Sighted
  <2>4. QED
    BY <1>0, <2>1, <2>2, <2>3
<1>8. ASSUME type' \notin doubted'
      PROVE  Exact'
  <2>0. /\ Exact
        /\ setting' = IF Key(type, depth) = "unset" THEN setting ELSE Key(type, depth)
    BY <1>0, <1>8 DEF Walked
  <2>1. CASE Key(type, depth) # "unset"
    <3> PICK n : n = depth
      OBVIOUS
    <3>1. n \in 0..(depth' - 1) /\ (n + 1)..(depth' - 1) = {}
      BY <1>1
    <3>2. setting' # "unset" /\ Key(type, n)' = setting'
      BY <1>2, <2>0, <2>1
    <3>3. QED
      BY <1>0, <3>1, <3>2 DEF Exact
  <2>2. CASE Key(type, depth) = "unset"
    <3>1. setting' = setting
      BY <2>0, <2>2
    <3>2. CASE setting = "unset" /\ \A k \in 0..(depth - 1) : Key(type, k) = "unset"
      <4>1. setting' = "unset" /\ \A k \in 0..(depth' - 1) : Key(type, k)' = "unset"
        BY <1>2, <1>5, <2>2, <3>1, <3>2
      <4>2. QED
        BY <1>0, <4>1 DEF Exact
    <3>3. ASSUME NEW d \in 0..(depth - 1), setting # "unset", Key(type, d) = setting,
                 \A k \in (d + 1)..(depth - 1) : Key(type, k) = "unset"
          PROVE  Exact'
      <4>1. d \in 0..(depth' - 1) /\ setting' # "unset" /\ Key(type, d)' = setting'
        BY <1>2, <1>5, <3>1, <3>3
      <4>2. ASSUME NEW k \in (d + 1)..(depth' - 1)
            PROVE  Key(type, k)' = "unset"
        <5>1. k \in (d + 1)..(depth - 1) \/ k = depth
          BY <1>1
        <5>2. QED
          BY <1>2, <2>2, <3>3, <5>1
      <4>3. QED
        BY <1>0, <4>1, <4>2 DEF Exact
    <3>4. QED
      BY <2>0, <3>2, <3>3 DEF Exact
  <2>3. QED
    BY <2>1, <2>2
<1>9. QED
  BY <1>6, <1>7, <1>8 DEF Walked

\* The keys of a path.
LEMMA KeyType ==
  ASSUME Shape, pc = "walk"
  PROVE  /\ depth \in Nat /\ depth <= Len(type) /\ Len(type) \in Nat
         /\ type \in Types /\ setting \in Settings
         /\ \A k \in 0..Len(type) : Key(type, k) \in {"absent", "unset", "off", "on"}
         /\ SetDepths(type) = {d \in 0..Len(type) : /\ \A k \in 0..d : Key(type, k) # "absent"
                                                    /\ Key(type, d) \in {"on", "off"}}
<1>1. /\ depth \in Nat /\ depth <= Len(type) /\ Len(type) \in Nat
      /\ type \in Types /\ setting \in Settings
  BY DEF Shape, Placed, TypeOK
<1>2. \A k \in 0..Len(type) : SubSeq(type, 1, k) \in Paths
  BY <1>1 DEF Paths
<1>3. \A k \in 0..Len(type) : Key(type, k) \in {"absent", "unset", "off", "on"}
  BY <1>2 DEF Key, Shape, TypeOK, RegistryTypeOK
<1>4. QED
  BY <1>1, <1>3 DEF SetDepths, Key

\* What the walk has found is a setting of the path, whatever failed.
LEMMA WalkSees ==
  ASSUME Shape, Walked, root = events, NEW fails \in Failures, Walk(fails)
  PROVE  Found(fails) \in Reached(type)
<1>0. pc = "walk"
  BY DEF Walk, WalkKey
<1>1. /\ depth \in Nat /\ depth <= Len(type) /\ Len(type) \in Nat /\ setting \in Settings
      /\ \A k \in 0..Len(type) : Key(type, k) \in {"absent", "unset", "off", "on"}
      /\ SetDepths(type) = {d \in 0..Len(type) : /\ \A k \in 0..d : Key(type, k) # "absent"
                                                 /\ Key(type, d) \in {"on", "off"}}
  BY <1>0, KeyType
<1>2. \A d \in SetDepths(type) : Key(type, d) \in Reached(type)
  BY DEF Reached, Key
<1>3. "unset" \in Reached(type)
  BY DEF Reached
<1>4. setting \in Reached(type)
  <2>1. CASE setting = "unset"
    BY <1>3, <2>1
  <2>2. CASE setting # "unset"
    <3>1. PICK d \in 0..(depth - 1) : Key(type, d) = setting
      BY <2>2 DEF Walked, Sighted
    <3>2. d \in SetDepths(type)
      BY <1>1, <2>2, <3>1 DEF Walked, Passed, Settings
    <3>3. QED
      BY <1>2, <3>1, <3>2
  <2>3. QED
    BY <2>1, <2>2
<1>5. CASE Found(fails) # setting
  <2>1. Found(fails) = Key(type, depth) /\ Key(type, depth) \notin {"absent", "unset"}
    BY <1>5, WalkReads
  <2>2. depth \in SetDepths(type)
    BY <1>1, <2>1 DEF Walked, Passed
  <2>3. QED
    BY <1>2, <2>1, <2>2
<1>6. QED
  BY <1>4, <1>5

\* The last key, where nothing failed: it is missing, or it is that of the whole type.
LEMMA WalkEnd ==
  ASSUME Shape, pc = "walk", Passed, Exact, root = events, ~(Readable("none") /\ depth < Len(type))
  PROVE  Found("none") = Deepest(type)
<1>1. /\ depth \in Nat /\ depth <= Len(type) /\ Len(type) \in Nat
      /\ type \in Types /\ setting \in Settings
  BY KeyType
<1>2. \A k \in 0..Len(type) : Key(type, k) \in {"absent", "unset", "off", "on"}
  BY KeyType
<1>3. SetDepths(type) = {d \in 0..Len(type) : /\ \A k \in 0..d : Key(type, k) # "absent"
                                             /\ Key(type, d) \in {"on", "off"}}
  BY KeyType
<1>4. CASE Key(type, depth) \in {"on", "off"}
  <2>1. depth = Len(type) /\ Found("none") = Key(type, depth)
    BY <1>1, <1>4 DEF Readable, Found, Key
  <2>2. depth \in SetDepths(type) /\ \A k \in SetDepths(type) : k <= depth
    BY <1>1, <1>3, <1>4, <2>1 DEF Passed
  <2>3. QED
    BY <1>1, <2>1, <2>2, DeepestIs
<1>5. CASE Key(type, depth) \in {"absent", "unset"}
  <2>1. Found("none") = setting
    BY <1>5 DEF Found, Readable, Key
  <2>2. \A k \in SetDepths(type) : k \in 0..(depth - 1)
    <3> TAKE k \in SetDepths(type)
    <3>1. /\ k \in 0..Len(type) /\ Key(type, k) \in {"on", "off"}
          /\ \A j \in 0..k : Key(type, j) # "absent"
      BY <1>3
    <3>2. CASE Key(type, depth) = "absent"
      BY <1>1, <3>1, <3>2
    <3>3. CASE Key(type, depth) = "unset"
      <4>1. depth = Len(type)
        BY <1>1, <3>3 DEF Readable, Key
      <4>2. QED
        BY <1>1, <3>1, <3>3, <4>1
    <3>4. QED
      BY <1>5, <3>2, <3>3
  <2>3. CASE setting = "unset" /\ \A k \in 0..(depth - 1) : Key(type, k) = "unset"
    <3>1. SetDepths(type) = {}
      BY <1>3, <2>2, <2>3
    <3>2. QED
      BY <2>1, <2>3, <3>1, DeepestNone
  <2>4. ASSUME NEW d \in 0..(depth - 1), setting # "unset", Key(type, d) = setting,
               \A k \in (d + 1)..(depth - 1) : Key(type, k) = "unset"
        PROVE  Found("none") = Deepest(type)
    <3>1. d \in SetDepths(type)
      BY <1>1, <1>3, <2>4 DEF Passed, Settings
    <3>2. \A k \in SetDepths(type) : k <= d
      BY <1>1, <1>3, <2>2, <2>4
    <3>3. QED
      BY <1>1, <2>1, <2>4, <3>1, <3>2, DeepestIs
  <2>5. QED
    BY <2>3, <2>4 DEF Exact
<1>6. QED
  BY <1>1, <1>2, <1>4, <1>5

\* What the walk ends with is a setting the type may be taken to have.
LEMMA WalkAllowed ==
  ASSUME Shape, Walked, root = events, NEW fails \in Failures, Walk(fails),
         ~(Readable(fails) /\ depth < Len(type))
  PROVE  Found(fails) \in Allows(type)'
<1>1. UNCHANGED <<type, tree>> /\ (type \notin doubted' => fails = "none" /\ type \notin doubted)
  BY WalkReads
<1>2. SetDepths(type)' = SetDepths(type)
  BY <1>1 DEF SetDepths
<1>3. Reached(type)' = Reached(type) /\ Deepest(type)' = Deepest(type)
  BY <1>1, <1>2 DEF Reached, Deepest
<1>4. CASE type \in doubted'
  BY <1>1, <1>3, <1>4, WalkSees DEF Allows
<1>5. CASE type \notin doubted'
  <2>1. fails = "none" /\ Passed /\ Exact
    BY <1>1, <1>5 DEF Walked
  <2>2. pc = "walk"
    BY DEF Walk, WalkKey
  <2>3. Found(fails) = Deepest(type)
    BY <2>1, <2>2, WalkEnd
  <2>4. QED
    BY <1>1, <1>3, <1>5, <2>3 DEF Allows
<1>6. QED
  BY <1>4, <1>5

-----------------------------------------------------------------------------
(* What is cached, and what the walk has found so far. *)

LEMMA AccurateRoot ==
  ASSUME IInv, Accurate
  PROVE  root = events
BY DEF IInv, Accurate, Clean, Watching

LEMMA CoherentEmpty ==
  ASSUME cache' = <<>>, pc' # "walk"
  PROVE  Coherent'
BY EmptyCache DEF Coherent

LEMMA CoherentKept ==
  ASSUME Coherent, Accurate' => Accurate, UNCHANGED <<tree, cache, doubted>>,
         pc' = "walk" => pc = "walk" /\ UNCHANGED <<type, depth, setting>>
  PROVE  Coherent'
<1> SUFFICES ASSUME Accurate'
             PROVE  (\A t \in DOMAIN cache : cache[t] \in Allows(t))' /\ (pc = "walk" => Walked)'
  BY DEF Coherent
<1>1. Accurate
  OBVIOUS
<1>2. \A t \in DOMAIN cache : cache[t] \in Allows(t)
  BY <1>1 DEF Coherent
<1>3. \A t : Allows(t)' = Allows(t)
  BY AllowsKept
<1>4. (\A t \in DOMAIN cache : cache[t] \in Allows(t))'
  BY <1>2, <1>3
<1>5. pc' = "walk" => Walked'
  <2>1. SUFFICES ASSUME pc' = "walk" PROVE Walked'
    OBVIOUS
  <2>2. Walked /\ UNCHANGED <<type, depth, setting>>
    BY <1>1, <2>1 DEF Coherent
  <2>3. QED
    BY <2>2 DEF Walked, Passed, Sighted, Exact, Key
<1>6. QED
  BY <1>4, <1>5

LEMMA CoherentLookup ==
  ASSUME IInv, Lookup
  PROVE  Coherent'
<1>1. Accurate' => Accurate
  BY DEF Lookup, Accurate, Clean
<1>2. CASE pc' # "walk"
  BY <1>1, <1>2, CoherentKept DEF IInv, Lookup
<1>3. CASE pc' = "walk"
  <2>1. /\ depth' = 0 /\ setting' = "unset" /\ UNCHANGED <<tree, cache>>
        /\ type \notin DOMAIN cache /\ doubted' = doubted \ {type}
    BY <1>3 DEF Lookup
  <2>2. Walked'
    BY <2>1 DEF Walked, Passed, Sighted, Exact
  <2>3. \A t \in DOMAIN cache : Allows(t)' = Allows(t)
    BY <2>1, AllowsKept
  <2>4. Accurate => \A t \in DOMAIN cache : cache[t] \in Allows(t)
    BY DEF IInv, Coherent
  <2>5. Accurate' => (\A t \in DOMAIN cache : cache[t] \in Allows(t))'
    BY <1>1, <2>1, <2>3, <2>4
  <2>6. QED
    BY <2>2, <2>5 DEF Coherent
<1>4. QED
  BY <1>2, <1>3

LEMMA CoherentWalk ==
  ASSUME IInv, NEW fails \in Failures, Walk(fails)
  PROVE  Coherent'
<1>1. /\ Accurate' => Accurate
      /\ tree' = tree /\ type' = type /\ pc = "walk" /\ Shape /\ Coherent
      /\ type \notin DOMAIN cache /\ doubted \subseteq doubted' /\ doubted' \subseteq doubted \cup {type}
  BY DEF IInv, Walk, WalkKey, Accurate, Clean, Shape, Placed
<1>0. \A t \in DOMAIN cache : Allows(t)' = Allows(t)
  BY <1>1, AllowsKept
<1>2. CASE Readable(fails) /\ depth < Len(type)
  <2>1. UNCHANGED <<cache, pc>>
    BY <1>2 DEF Walk, WalkKey
  <2>3. Accurate' => Walked'
    BY <1>1, <1>2, WalkOn, AccurateRoot DEF Coherent
  <2>5. Accurate' => (\A t \in DOMAIN cache : cache[t] \in Allows(t))'
    BY <1>0, <1>1, <2>1 DEF Coherent
  <2>6. QED
    BY <2>3, <2>5 DEF Coherent
<1>3. CASE ~(Readable(fails) /\ depth < Len(type))
  <2>1. Remember(Found(fails)) /\ pc' = "return"
    BY <1>3 DEF Walk, WalkKey
  <2>2. Accurate' => Found(fails) \in Allows(type)'
    BY <1>1, <1>3, WalkAllowed, AccurateRoot DEF Coherent
  <2>3. ASSUME Accurate', NEW t \in DOMAIN cache'
        PROVE  cache'[t] \in Allows(t)'
    <3> DEFINE kept == IF Cardinality(DOMAIN cache) >= CacheMax THEN <<>> ELSE cache
    <3>1. \A u \in DOMAIN kept : kept[u] \in Allows(u)' /\ u \in DOMAIN cache
      BY <1>0, <1>1, <2>3, EmptyCache DEF Coherent
    <3>2. \/ cache' = [u \in DOMAIN kept \cup {type} |-> IF u = type THEN Found(fails) ELSE kept[u]]
          \/ cache' = kept
      BY <2>1 DEF Remember
    <3> HIDE DEF kept
    <3>4. CASE t = type
      <4>1. cache'[t] = Found(fails)
        BY <1>1, <2>3, <3>1, <3>2, <3>4
      <4>2. Found(fails) \in Allows(type)'
        BY <2>2, <2>3
      <4>3. Allows(type)' = Allows(t)'
        BY <1>1, <3>4
      <4>4. QED
        BY <4>1, <4>2, <4>3
    <3>5. CASE t # type
      <4>1. t \in DOMAIN kept /\ cache'[t] = kept[t]
        BY <2>3, <3>2, <3>5
      <4>2. QED
        BY <3>1, <4>1
    <3>3. QED
      BY <3>4, <3>5
  <2>5. Accurate' => (\A t \in DOMAIN cache : cache[t] \in Allows(t))'
    BY <2>3
  <2>6. QED
    BY <2>1, <2>5 DEF Coherent
<1>4. QED
  BY <1>2, <1>3

\* A change that the watch does not report is not below Events.
LEMMA CoherentChange ==
  ASSUME IInv, Change
  PROVE  Coherent'
<1>1. Shape /\ Recorded /\ UNCHANGED <<pc, cache, doubted, type, depth, setting, root, root_watched, established>>
  BY ChangeEffect DEF IInv, Change
<1>2. SUFFICES ASSUME Accurate' PROVE Coherent'
  BY DEF Coherent
<1>3. changed_at' = now /\ established <= now /\ established \in Int /\ now \in Int
  BY DEF Change, IInv, Clocks, Shape, TypeOK
<1>4. Clean'
  BY <1>1, <1>2, <1>3 DEF Accurate
<1>5. Clean
  BY <1>1, <1>4 DEF Clean, Recorded
<1>6. root = events /\ root # 0 /\ root_watched
  BY <1>5 DEF IInv, Clean, Watching
<1>7. tree' = tree
  BY <1>1, <1>4, <1>6 DEF Recorded, Clean
<1>8. Accurate
  BY <1>5 DEF Accurate
<1>9. QED
  BY <1>1, <1>7, <1>8, CoherentKept DEF IInv

LEMMA CoherentStep ==
  ASSUME IInv, Next
  PROVE  Coherent'
<1> USE DEF IInv
<1>1. CASE PolicyOpen \/ PolicyOpenNoMemory \/ PolicyClose
  BY <1>1, CoherentEmpty DEF PolicyOpen, Establish, PolicyOpenNoMemory, PolicyClose, DropHandle
<1>2. ASSUME NEW ty, NEW ti, Enabled(ty, ti)
      PROVE  Coherent'
  <2>1. Accurate' => Accurate
    BY <1>2 DEF Enabled, Accurate, Clean
  <2>2. pc' # "walk"
    BY <1>2 DEF Enabled
  <2>3. QED
    BY <1>2, <2>1, <2>2, CoherentKept DEF Enabled
<1>3. CASE pc \in Establishing /\ cache' = cache /\ pc' # "walk"
  BY <1>3, CoherentEmpty DEF Shape, Placed
<1>4. ASSUME NEW fails, OpenRoot(fails) \/ ArmRoot(fails) \/ ArmGeneric(fails) \/ ArmMachine(fails)
      PROVE  Coherent'
  BY <1>3, <1>4 DEF OpenRoot, ArmRoot, ArmGeneric, ArmMachine, WatchAncestor, Establishing
<1>5. CASE Established
  BY <1>3, <1>5 DEF Established, Establishing
<1>6. ASSUME NEW fails, Refresh(fails)
      PROVE  Coherent'
  <2>1. CASE cache' = <<>> /\ pc' # "walk"
    BY <2>1, CoherentEmpty
  <2>2. CASE cache' # <<>>
    <3>1. ~("changed" \in Drained(fails)) /\ ~("gone" \in Drained(fails)) /\ cache' = cache
      BY <1>6, <2>2 DEF Refresh, Establish
    <3>2. UNCHANGED <<tree, root, root_watched, events, established, changed_at, doubted>> /\ pc' = "lookup"
      BY <1>6, <2>2, <3>1 DEF Refresh, Establish
    <3>3. root_watched => root_news = {}
      <4>1. root_news \subseteq {"changed", "gone"}
        BY DEF Shape, TypeOK, RegistryTypeOK
      <4>2. root_watched => root_news = Drained(fails)
        BY <3>1 DEF Drained
      <4>3. QED
        BY <3>1, <4>1, <4>2
    <3>4. Accurate' => Accurate
      BY <3>2, <3>3 DEF Accurate, Clean
    <3>5. QED
      BY <3>1, <3>2, <3>4, CoherentKept
  <2>3. pc' # "walk"
    BY <1>6 DEF Refresh, Establish
  <2>4. QED
    BY <2>1, <2>2, <2>3
<1>7. CASE RefreshUnwatched
  <2>1. CASE Establish
    BY <2>1, CoherentEmpty DEF Establish
  <2>2. CASE ~Establish
    <3>1. Accurate' => Accurate
      BY <1>7, <2>2 DEF RefreshUnwatched, Accurate, Clean
    <3>2. QED
      BY <1>7, <2>2, <3>1, CoherentKept DEF RefreshUnwatched
  <2>3. QED
    BY <2>1, <2>2
<1>8. CASE Lookup
  BY <1>8, CoherentLookup
<1>9. ASSUME NEW fails \in Failures, Walk(fails)
      PROVE  Coherent'
  BY <1>9, CoherentWalk
<1>10. CASE Return \/ Tick
  <2>1. Accurate' => Accurate
    BY <1>10 DEF Return, Tick, Accurate, Clean
  <2>2. QED
    BY <1>10, <2>1, CoherentKept DEF Return, Tick
<1>11. CASE Change
  BY <1>11, CoherentChange
<1>12. QED
  <2> HIDE DEF IInv
  <2>1. QED
    BY <1>1, <1>2, <1>4, <1>5, <1>6, <1>7, <1>8, <1>9, <1>10, <1>11 DEF Next, Thread

-----------------------------------------------------------------------------
(* The decision. *)

LEMMA ServingStep ==
  ASSUME IInv, Next
  PROVE  Serving'
<1>a. Serving /\ called <= now /\ called \in Nat /\ now \in Nat /\ established \in Nat
  BY DEF IInv, Shape, TypeOK, Clocks
<1> USE <1>a DEF Serving, Establishing
<1>1. CASE PolicyOpen
  BY <1>1 DEF PolicyOpen, Establish
<1>2. CASE PolicyOpenNoMemory \/ PolicyClose
  BY <1>2 DEF PolicyOpenNoMemory, PolicyClose, DropHandle
<1>3. ASSUME NEW ty \in Types \cup {NoType}, NEW ti \in Tiers \cup {"unknown"}, Enabled(ty, ti)
      PROVE  Serving'
  BY <1>3 DEF Enabled
<1>4. ASSUME NEW fails \in BOOLEAN, ArmRoot(fails)
      PROVE  Serving'
  BY <1>4 DEF ArmRoot
<1>5. ASSUME NEW fails \in BOOLEAN, ArmGeneric(fails)
      PROVE  Serving'
  BY <1>5 DEF ArmGeneric, WatchAncestor
<1>6. ASSUME NEW fails \in BOOLEAN, ArmMachine(fails)
      PROVE  Serving'
  BY <1>6 DEF ArmMachine, WatchAncestor
<1>7. ASSUME NEW fails \in BOOLEAN, Refresh(fails)
      PROVE  Serving'
  BY <1>7 DEF Refresh, Establish, Drained
<1>8. ASSUME NEW fails \in BOOLEAN, OpenRoot(fails)
      PROVE  Serving'
  BY <1>8 DEF OpenRoot
<1>9. CASE Established
  BY <1>9 DEF Established
<1>10. CASE RefreshUnwatched
  BY <1>10 DEF RefreshUnwatched, Establish
<1>11. CASE Lookup
  BY <1>11 DEF Lookup
<1>12. ASSUME NEW fails \in Failures, Walk(fails)
      PROVE  Serving'
  BY <1>12 DEF Walk, WalkKey
<1>13. CASE Return
  BY <1>13 DEF Return
<1>14. CASE Tick
  BY <1>14 DEF Tick
<1>15. CASE Change
  BY <1>15 DEF Change
<1>16. QED
  <2> HIDE DEF Serving
  <2>1. QED
    BY <1>1, <1>2, <1>3, <1>4, <1>5, <1>6, <1>7, <1>8, <1>9, <1>10, <1>11, <1>12, <1>13, <1>14, <1>15 DEF Next, Thread

LEMMA NewsReadStep ==
  ASSUME IInv, Next
  PROVE  NewsRead'
<1>a. NewsRead /\ (pc \in Opening => ~root_watched)
  BY DEF IInv, Watching
<1> USE <1>a DEF NewsRead, Consulted, Opening, Tiers
<1>1. CASE PolicyOpen
  BY <1>1 DEF PolicyOpen, Establish
<1>2. CASE PolicyOpenNoMemory \/ PolicyClose
  BY <1>2 DEF PolicyOpenNoMemory, PolicyClose, DropHandle
<1>3. ASSUME NEW ty \in Types \cup {NoType}, NEW ti \in Tiers \cup {"unknown"}, Enabled(ty, ti)
      PROVE  NewsRead'
  BY <1>3 DEF Enabled
<1>4. ASSUME NEW fails \in BOOLEAN, ArmRoot(fails)
      PROVE  NewsRead'
  BY <1>4 DEF ArmRoot
<1>5. ASSUME NEW fails \in BOOLEAN, ArmGeneric(fails)
      PROVE  NewsRead'
  BY <1>5 DEF ArmGeneric, WatchAncestor
<1>6. ASSUME NEW fails \in BOOLEAN, ArmMachine(fails)
      PROVE  NewsRead'
  BY <1>6 DEF ArmMachine, WatchAncestor
<1>7. ASSUME NEW fails \in BOOLEAN, Refresh(fails)
      PROVE  NewsRead'
  BY <1>7 DEF Refresh, Establish, Drained
<1>8. ASSUME NEW fails \in BOOLEAN, OpenRoot(fails)
      PROVE  NewsRead'
  BY <1>8 DEF OpenRoot
<1>9. CASE Established
  BY <1>9 DEF Established
<1>10. CASE RefreshUnwatched
  BY <1>10 DEF RefreshUnwatched, Establish
<1>11. CASE Lookup
  BY <1>11 DEF Lookup
<1>12. ASSUME NEW fails \in Failures, Walk(fails)
      PROVE  NewsRead'
  BY <1>12 DEF Walk, WalkKey
<1>13. CASE Return
  BY <1>13 DEF Return
<1>14. CASE Tick
  BY <1>14 DEF Tick
<1>15. CASE Change
  BY <1>15 DEF Change
<1>16. QED
  <2> HIDE DEF NewsRead
  <2>1. QED
    BY <1>1, <1>2, <1>3, <1>4, <1>5, <1>6, <1>7, <1>8, <1>9, <1>10, <1>11, <1>12, <1>13, <1>14, <1>15 DEF Next, Thread

LEMMA LookupRight ==
  ASSUME IInv, Lookup, pc' = "return", Accurate \/ (root = 0 /\ events = 0) \/ Blind
  PROVE  ByRegistry'
<1>1. type \in Types /\ UNCHANGED <<tree, type, tier, doubted>>
  BY DEF IInv, Shape, Placed, Lookup
<1>0. Allows(type)' = Allows(type)
  <2>1. SetDepths(type)' = SetDepths(type)
    BY <1>1 DEF SetDepths
  <2>2. QED
    BY <1>1, <2>1 DEF Allows, Reached, Deepest
<1>2. CASE root = 0
  <2>1. "unset" \in Allows(type)
    <3>1. CASE type \in doubted
      BY <3>1 DEF Allows, Reached
    <3>2. CASE type \notin doubted
      <4>1. events = 0
        BY <1>1, <1>2, <3>2, AccurateRoot DEF Blind
      <4>2. Deepest(type) = "unset"
        BY <1>1, <4>1, NothingSet DEF IInv, Environment
      <4>3. QED
        BY <3>2, <4>2 DEF Allows
    <3>3. QED
      BY <3>1, <3>2
  <2>2. answer' = decide(tier, "unset")
    BY <1>2 DEF Lookup
  <2>3. QED
    BY <1>0, <1>1, <2>1, <2>2 DEF ByRegistry
<1>3. CASE root # 0
  <2>1. type \in DOMAIN cache /\ answer' = decide(tier, cache[type])
    BY <1>3 DEF Lookup
  <2>2. cache[type] \in Allows(type)
    BY <1>3, <2>1 DEF IInv, Coherent, Blind
  <2>3. QED
    BY <1>0, <1>1, <2>1, <2>2 DEF ByRegistry
<1>4. QED
  BY <1>2, <1>3

LEMMA WalkRight ==
  ASSUME IInv, NEW fails \in Failures, Walk(fails), pc' = "return", Accurate
  PROVE  ByRegistry'
<1>1. pc = "walk" /\ Shape /\ Walked /\ root = events /\ UNCHANGED tier
  BY AccurateRoot DEF IInv, Coherent, Walk, WalkKey
<1>2. ~(Readable(fails) /\ depth < Len(type)) /\ answer' = decide(tier, Found(fails))
  BY <1>1 DEF Walk, WalkKey
<1>3. Found(fails) \in Allows(type)'
  BY <1>1, <1>2, WalkAllowed
<1>4. QED
  BY <1>1, <1>2, <1>3 DEF ByRegistry

LEMMA ByRegistryKept ==
  ASSUME UNCHANGED <<tree, type, tier, answer, doubted>>, ByRegistry
  PROVE  ByRegistry'
<1>1. SetDepths(type)' = SetDepths(type)
  BY DEF SetDepths
<1>2. Allows(type)' = Allows(type)
  BY <1>1 DEF Allows, Reached, Deepest
<1>3. QED
  BY <1>2 DEF ByRegistry

\* The steps that end in a consulted decision.
LEMMA Consulting ==
  ASSUME IInv, Next, Consulted', quiet'
  PROVE  \/ Lookup \/ \E fails \in Failures : Walk(fails)
         \/ /\ Consulted
            /\ UNCHANGED <<tree, type, tier, answer, doubted, root_watched, registry, quiet, called, changed_at>>
<1> USE DEF Consulted
<1>1. pc' = "return" /\ type' # NoType /\ tier' \in Tiers \ {"essential"}
  OBVIOUS
<1>2. ASSUME NEW ty \in Types \cup {NoType}, NEW ti \in Tiers \cup {"unknown"}, Enabled(ty, ti)
      PROVE  FALSE
  BY <1>1, <1>2 DEF Enabled, Tiers
<1>3. ASSUME NEW fails \in BOOLEAN,
             OpenRoot(fails) \/ ArmRoot(fails) \/ ArmGeneric(fails) \/ ArmMachine(fails) \/ Refresh(fails)
      PROVE  FALSE
  BY <1>1, <1>3 DEF OpenRoot, ArmRoot, ArmGeneric, ArmMachine, WatchAncestor, Refresh, Establish
<1>4. ~PolicyOpen /\ ~PolicyOpenNoMemory /\ ~PolicyClose /\ ~Established /\ ~RefreshUnwatched /\ ~Return
  BY <1>1 DEF PolicyOpen, Establish, PolicyOpenNoMemory, PolicyClose, DropHandle,
              Established, RefreshUnwatched, Return
<1>5. ~Change
  BY DEF Change
<1>6. CASE Tick
  BY <1>1, <1>6 DEF Tick
<1>7. QED
  BY <1>2, <1>3, <1>4, <1>5, <1>6 DEF Next, Thread

LEMMA WatchedStep ==
  ASSUME IInv, Next
  PROVE  WatchedFresh'
<1> SUFFICES ASSUME Consulted', quiet', root_watched'
             PROVE  ByRegistry'
  BY DEF WatchedFresh
<1>1. CASE Lookup
  <2>1. pc' = "return" /\ root_watched /\ quiet /\ pc = "lookup"
    BY <1>1 DEF Lookup, Consulted
  <2>2. Accurate
    BY <2>1 DEF IInv, NewsRead, Accurate, Clean
  <2>3. QED
    BY <1>1, <2>1, <2>2, LookupRight
<1>2. ASSUME NEW fails \in Failures, Walk(fails)
      PROVE  ByRegistry'
  <2>1. pc' = "return" /\ root_watched /\ quiet /\ pc = "walk"
    BY <1>2 DEF Walk, WalkKey, Consulted
  <2>2. Accurate
    BY <2>1 DEF IInv, NewsRead, Accurate, Clean
  <2>3. QED
    BY <1>2, <2>1, <2>2, WalkRight
<1>3. CASE /\ Consulted
           /\ UNCHANGED <<tree, type, tier, answer, doubted, root_watched, registry, quiet, called, changed_at>>
  <2>1. ByRegistry
    BY <1>3 DEF IInv, WatchedFresh
  <2>2. QED
    BY <1>3, <2>1, ByRegistryKept
<1>4. QED
  BY <1>1, <1>2, <1>3, Consulting

LEMMA SettledFreshStep ==
  ASSUME IInv, Next
  PROVE  SettledWhereNoticed'
<1> SUFFICES ASSUME Consulted', Entitled'
             PROVE  ByRegistry'
  BY DEF SettledWhereNoticed, SettledFresh, Entitled, Noticing
<1>1. CASE Lookup
  <2>1. UNCHANGED <<env, quiet, denied, called, changed_at>> /\ pc' = "return" /\ pc = "lookup"
    BY <1>1 DEF Lookup, Consulted
  <2>2. Entitled
    BY <2>1 DEF Entitled, Noticing
  <2>3. Accurate \/ (root = 0 /\ events = 0) \/ Blind
    BY <2>1, <2>2 DEF IInv, Informed
  <2>4. QED
    BY <1>1, <2>1, <2>3, LookupRight
<1>2. ASSUME NEW fails \in Failures, Walk(fails)
      PROVE  ByRegistry'
  <2>1. UNCHANGED <<env, quiet, denied, called, changed_at>> /\ pc' = "return" /\ pc = "walk"
    BY <1>2 DEF Walk, WalkKey, Consulted
  <2>2. Entitled
    BY <2>1 DEF Entitled, Noticing
  <2>3. Accurate
    BY <2>1, <2>2 DEF IInv, Informed, Shape, Placed, Blind
  <2>4. QED
    BY <1>2, <2>1, <2>3, WalkRight
<1>3. CASE /\ Consulted
           /\ UNCHANGED <<tree, type, tier, answer, doubted, root_watched, registry, quiet, called, changed_at>>
  <2>1. Entitled
    BY <1>3 DEF Entitled, Noticing
  <2>2. ByRegistry
    BY <1>3, <2>1 DEF IInv, SettledWhereNoticed, SettledFresh, Entitled, Noticing
  <2>3. QED
    BY <1>3, <2>2, ByRegistryKept
<1>4. QED
  BY <1>1, <1>2, <1>3, Consulting DEF Entitled

\* How a call comes to look the type up: its establish() ended, or refresh()
\* found no reason for one.
LEMMA InformedStep ==
  ASSUME IInv, Next
  PROVE  Informed'
<1> SUFFICES ASSUME pc' \in {"lookup", "walk"}, Entitled'
             PROVE  (Accurate \/ (root = 0 /\ events = 0) \/ Blind)'
  BY DEF Informed
<1>a. IInv /\ established \in Nat /\ called \in Nat /\ changed_at \in Nat /\ now \in Nat
  BY DEF IInv, Shape, TypeOK
<1> USE <1>a DEF IInv
<1>1. CASE Established
  <2>1. /\ pc = "established" /\ type # NoType
        /\ UNCHANGED <<registry, root, root_watched, root_news, established, history>>
    BY <1>1 DEF Established
  <2>2. established >= called
    BY <2>1 DEF Serving, Establishing
  <2>3. established > changed_at
    BY <2>1, <2>2 DEF Entitled
  <2>4. root = events \/ Blind
    BY <2>1, <2>3 DEF Settled, Opening, Entitled
  <2>5. QED
    BY <1>1, <2>1, <2>3, <2>4 DEF Accurate, Blind, Established
<1>2. ASSUME NEW fails \in BOOLEAN, Refresh(fails)
      PROVE  (Accurate \/ (root = 0 /\ events = 0) \/ Blind)'
  <2>1. /\ ~("gone" \in Drained(fails))
        /\ ~("changed" \in Drained(fails) /\ ancestor # "none")
        /\ pc = "refresh" /\ (root_watched \/ ancestor # "none")
        /\ root_watched => root_news' = {}
        /\ UNCHANGED <<registry, root, root_watched>>
    BY <1>2 DEF Refresh, Establish
  <2>2. CASE root_watched
    <3>1. root = events
      BY <2>1, <2>2 DEF Watching, Drained
    <3>2. QED
      BY <2>1, <2>2, <3>1 DEF Accurate, Clean
  <2>3. CASE ~root_watched
    <3>1. ancestor # "none" /\ ~("changed" \in ancestor_news)
      BY <2>1, <2>3 DEF Drained
    <3>2. Noticing
      BY <2>1 DEF Entitled, Noticing
    <3>3. events = 0 /\ root = 0
      BY <2>1, <3>1, <3>2 DEF Noticed, Shape, Placed
    <3>4. QED
      BY <2>1, <3>3
  <2>4. QED
    BY <2>2, <2>3
<1>3. CASE RefreshUnwatched
  <2>1. /\ pc = "refresh" /\ ~root_watched /\ ancestor = "none" /\ ~(now >= retry_at)
        /\ UNCHANGED <<registry, root, root_watched, established, history>>
    BY <1>3 DEF RefreshUnwatched, Establish
  <2>2. retry_at = established + TTL /\ called <= now
    BY <2>1 DEF Clocks, Establishing
  <2>3. called >= changed_at + TTL /\ ~denied
    BY <2>1 DEF Entitled
  <2>4. established > changed_at
    BY <2>1, <2>2, <2>3
  <2>5. root = events \/ Blind
    BY <2>1, <2>3, <2>4 DEF Settled, Opening
  <2>6. QED
    BY <1>3, <2>1, <2>4, <2>5 DEF Accurate, Blind, RefreshUnwatched
<1>4. CASE Lookup \/ Tick \/ \E fails \in Failures : Walk(fails)
  <2>1. /\ pc \in {"lookup", "walk"}
        /\ UNCHANGED <<registry, root, root_watched, root_news, established, history>>
    BY <1>4 DEF Lookup, Walk, WalkKey, Tick
  <2>2. Entitled
    BY <2>1 DEF Entitled, Noticing
  <2>3. Accurate \/ (root = 0 /\ events = 0) \/ Blind
    BY <2>1, <2>2 DEF Informed
  <2>5. Blind => Blind'
    BY <1>4 DEF Blind, Lookup, Walk, WalkKey, Tick
  <2>4. QED
    BY <2>1, <2>3, <2>5 DEF Accurate, Clean
<1>5. ASSUME NEW ty \in Types \cup {NoType}, NEW ti \in Tiers \cup {"unknown"}, Enabled(ty, ti)
      PROVE  FALSE
  BY <1>5 DEF Enabled
<1>6. ASSUME NEW fails \in BOOLEAN, OpenRoot(fails) \/ ArmRoot(fails) \/ ArmGeneric(fails) \/ ArmMachine(fails)
      PROVE  FALSE
  BY <1>6 DEF OpenRoot, ArmRoot, ArmGeneric, ArmMachine, WatchAncestor
<1>7. ~PolicyOpen /\ ~PolicyOpenNoMemory /\ ~PolicyClose /\ ~Return
  BY DEF PolicyOpen, Establish, PolicyOpenNoMemory, PolicyClose, DropHandle, Return
<1>8. ~Change
  BY DEF Change, Entitled
<1>9. QED
  <2> HIDE DEF IInv
  <2>1. QED
    BY <1>1, <1>2, <1>3, <1>4, <1>5, <1>6, <1>7, <1>8 DEF Next, Thread

-----------------------------------------------------------------------------
(* The theorems. *)

LEMMA IInvInit == Init => IInv
<1> SUFFICES ASSUME Init PROVE IInv
  OBVIOUS
<1> USE DEF Init, RegistryInit
<1>1. root_watched \in BOOLEAN /\ quiet \in BOOLEAN /\ denied \in BOOLEAN /\ generic \in BOOLEAN
  OBVIOUS
<1>2. tree \in [Paths -> {"absent", "unset", "off", "on"}]
  BY DEF Absent
<1>3. RegistryTypeOK
  BY <1>1, <1>2 DEF RegistryTypeOK
<1>4. Shape
  BY <1>1, <1>3, EmptyCache DEF Shape, Placed, TypeOK, Settings, Ancestors, Establishing
<1>5. Clocks /\ Watching /\ Serving
  BY DEF Clocks, Watching, Serving
<1>6. Environment
  <2>1. events = 0 => tree = Absent
    OBVIOUS
  <2>2. ("generic" \notin env => generic) /\ ~denied
    OBVIOUS
  <2>3. "events" \notin env => events # 0 /\ pc \notin {"generic", "machine"} /\ ancestor = "none"
    OBVIOUS
  <2>4. QED
    BY <2>1, <2>2, <2>3 DEF Environment
<1>7. Noticed /\ Settled /\ Informed /\ NewsRead
  BY DEF Noticed, Settled, Informed, NewsRead, Consulted, Opening
<1>8. Coherent
  BY EmptyCache DEF Coherent
<1>9. WatchedFresh /\ SettledWhereNoticed
  BY DEF WatchedFresh, SettledWhereNoticed, SettledFresh, Consulted
<1>10. QED
  BY <1>4, <1>5, <1>6, <1>7, <1>8, <1>9 DEF IInv

LEMMA IInvStep == IInv /\ [Next]_vars => IInv'
<1> SUFFICES ASSUME IInv, [Next]_vars PROVE IInv'
  OBVIOUS
<1>1. CASE Next
  <2>1. Shape'
    BY <1>1, ShapeThread, ShapeChange DEF IInv, Next
  <2>2. QED
    BY <1>1, <2>1, ClocksStep, WatchingStep, EnvironmentStep, NoticedStep, SettledStep, CoherentStep,
       NewsReadStep, InformedStep, ServingStep, WatchedStep, SettledFreshStep DEF IInv
<1>2. CASE UNCHANGED vars
  <2>1. TypeOK' /\ IsFiniteSet(DOMAIN cache)' /\ Placed'
    <3>1. RegistryTypeOK'
      BY <1>2 DEF IInv, vars, Shape, TypeOK, RegistryTypeOK
    <3>2. TypeOK'
      BY <1>2, <3>1 DEF IInv, vars, Shape, TypeOK
    <3>3. IsFiniteSet(DOMAIN cache)' /\ Placed'
      BY <1>2 DEF IInv, vars, Shape, Placed
    <3>4. QED
      BY <3>2, <3>3
  <2>6. Clocks' /\ Watching' /\ Environment'
    BY <1>2 DEF IInv, vars, Clocks, Watching, Environment
  <2>2. Noticed' /\ Settled' /\ NewsRead' /\ Informed' /\ Serving'
    BY <1>2 DEF IInv, vars, Noticed, Noticing, Settled, NewsRead, Consulted, Informed, Entitled,
                Accurate, Clean, Serving, Blind
  <2>3. Coherent'
    <3>1. Accurate' => Accurate
      BY <1>2 DEF vars, Accurate, Clean
    <3>2. QED
      BY <1>2, <3>1, CoherentKept DEF IInv, vars
  <2>4. WatchedFresh' /\ SettledWhereNoticed'
    <3>1. ByRegistry => ByRegistry'
      BY <1>2, ByRegistryKept DEF vars
    <3>2. QED
      BY <1>2, <3>1 DEF IInv, vars, WatchedFresh, SettledWhereNoticed, SettledFresh, Consulted
  <2>5. QED
    BY <2>1, <2>2, <2>3, <2>4, <2>6 DEF IInv, Shape
<1>3. QED
  BY <1>1, <1>2

THEOREM IInvAlways == Spec => []IInv
BY IInvInit, IInvStep, PTL DEF Spec

\* The handle stays well-formed, and its cache never holds more than CACHE_MAX
\* decisions: remember() clears it first.
THEOREM HandleTyped == Spec => []TypeOK
<1>1. IInv => TypeOK
  BY DEF IInv, Shape
<1>2. QED
  BY <1>1, IInvAlways, PTL

\* The cache of a watched handle with nothing to read holds what the registry
\* holds, however the walks that filled it raced with changes, and a setting of the
\* type's path where a call of the walk failed.
THEOREM CacheIsRegistry == Spec => []CacheCoherent
<1>1. IInv => CacheCoherent
  BY DEF IInv, Coherent, Accurate, Clean, CacheCoherent
<1>2. QED
  BY <1>1, IInvAlways, PTL

\* A watched handle decides by the registry as it is, up to what a failed call hides:
\* enabled() reads the watch before it looks at the cache.
THEOREM WatchedDecidesByRegistry == Spec => []WatchedFresh
<1>1. IInv => WatchedFresh
  BY DEF IInv
<1>2. QED
  BY <1>1, IInvAlways, PTL

\* Any handle does, one TTL after the last change, where establish() can watch
\* what it needs: nothing it kept is older.
THEOREM SettledDecidesByRegistry == Spec => []SettledWhereNoticed
<1>1. IInv => SettledWhereNoticed
  BY DEF IInv
<1>2. QED
  BY <1>1, IInvAlways, PTL

=============================================================================

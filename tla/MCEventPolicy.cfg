SPECIFICATION Spec
CONSTANTS
  Types <- MCTypes
  Envs = {{"generic", "events", "access", "arm", "read"}, {"events", "setting", "read"},
          {"setting", "arm", "walk"}}
  MaxChanges = 3
  CacheMax = 1
  TTL = 1
  MaxTime = 2
INVARIANTS SettledWhereNoticed CacheCoherent WatchedFresh TypeOK

SPECIFICATION Spec
CONSTANTS
  Types <- MCTypes
  Envs = {{"events", "setting", "access"}}
  MaxChanges = 4
  CacheMax = 1
  TTL = 1
  MaxTime = 1
INVARIANT SettledFresh

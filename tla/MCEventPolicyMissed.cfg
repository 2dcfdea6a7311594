SPECIFICATION Spec
CONSTANTS
  Types <- MCTypes
  Envs = {{"generic", "events"}}
  MaxChanges = 2
  CacheMax = 1
  TTL = 1
  MaxTime = 0
INVARIANT CreationNoticed

SPECIFICATION Spec
CONSTANTS
  MaxCachedBursts = 2
  Tags = {"s"}
  None = None
  TriggerStamps = {1, 2}
  ClockSteps <- Forward
  MaxClock = 4
  MaxNumber = 2
INVARIANTS
  TypeOK
  CacheSound
  NewestCached
PROPERTIES
  EvictsOldest
  CompletedUnchanged

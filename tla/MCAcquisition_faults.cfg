SPECIFICATION Spec
CONSTANTS
  Channels = {"c1"}
  PacketCounts = {2}
  MaxCachedBursts = 1
  None = None
  Lossy = TRUE
  Posted <- ModeCommands
  MaxBursts = 2
  MaxCommands = 3
  MaxStream = 0
  MaxBreaks = 1
  LinkCapacity = 2
  EventCapacity = 2
INVARIANTS
  BurstPacketsMatchTrigger
  NumberingMatchesPosition

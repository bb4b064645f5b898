SPECIFICATION Spec
CONSTANTS
  Channels = {"c1"}
  PacketCounts = {2}
  MaxCachedBursts = 1
  None = None
  Lossy = FALSE
  Posted <- ModeCommands
  MaxBursts = 2
  MaxCommands = 4
  MaxStream = 0
  MaxBreaks = 0
  LinkCapacity = 2
  EventCapacity = 2
INVARIANTS
  CompletedBurstWhole

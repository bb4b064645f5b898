SPECIFICATION FairSpec
CONSTANTS
  Channels = {"c1"}
  PacketCounts = {1}
  MaxCachedBursts = 1
  None = None
  Lossy = FALSE
  Posted <- AllCommands
  MaxBursts = 2
  MaxCommands = 3
  MaxStream = 0
  MaxBreaks = 1
  LinkCapacity = 2
  EventCapacity = 2
INVARIANTS
  StatusSettles
PROPERTIES
  FinishedBurstArrives

SPECIFICATION ProgramsSpec
CONSTANTS
  Channels = {0, 1}
  MaxRate = 1
  Formats = {0, 1, 2}
  PacketCounts = {2}
  Delays = {1}
  ClockMod = 7
  ClockWraps = FALSE
  MaxPass = 2
  Requests <- AllRequests
  Files <- ShortFiles
  MAX_CSV_ROWS = 3
  Indexes = {0, 1, 2, 2147483647}
  Batch = 2
  MaxPerFile = 4
  Kinds = {"DATA_PACKET", "EVENT_TRIGGERED", "STATUS_RUNNING", "STATUS_STOPPED"}
  Keys = {"p", "three", "four", "h", "q"}
  OpenMayFail = FALSE
  MaxFrames = 10
  MaxInFlight = 2
INVARIANTS
  ClosedBurstsWhole
  EveryFrameSaved
  SamplesAreRead
PROPERTIES
  StampsAdvance
  NothingHangs
CHECK_DEADLOCK FALSE

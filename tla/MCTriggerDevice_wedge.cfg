SPECIFICATION Spec
CONSTANTS
  Channels = {"c1"}
  PacketCounts = {1, 2}
  StampMod = 2
  ClockMod = 6
  Interval = 2
  FirstDelays = {1, 3}
  RearmDelays = {3}
  MaxPass = 2
  BootTimes = {4}
  Requests <- MCControl
  TxCapacity = 1
  FrameUnits <- MCFrameUnits
  WireCapacity = 1
  SendMayFail = FALSE
INVARIANTS
  RunningMeansListening

SPECIFICATION FairSpec
CONSTANTS
  Channels = {"c1"}
  PacketCounts = {2}
  StampMod = 2
  ClockMod = 4
  Interval = 1
  FirstDelays = {1}
  RearmDelays = {1}
  MaxPass = 2
  BootTimes = {1}
  Requests <- MCRequests
  TxCapacity = 2
  FrameUnits <- MCFrameUnits
  WireCapacity = 1
  SendMayFail = TRUE
PROPERTIES
  ImplementsSource
  BurstEnds
  ArmedFires

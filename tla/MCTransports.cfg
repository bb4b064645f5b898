SPECIFICATION TransportsSpec
CONSTANTS
  RxPool <- Blocks3
  TxPool <- Blocks3
  ReadyLen = 3
  SendLen = 3
  MaxChunk = 2
  Requested = {0, 1, 3}
  FromIsr = FALSE
  ReadLen = 3
  Deliveries = {3}
  FrameLens = {3}
  MaxOffered = 6
  MaxFrames = 0
  None = "none"
  Configs = {"tcp", "test_mode"}
  Sizes = {1, 3}
  SockCap = 2
  MaxTcpFrames = 3
  MaxRequests = 2
  RingMax = 10
  SizesAsked = {0, 1, 3, 5, 12}
  InitKeeps = TRUE
  TxIsr = FALSE
  ReadLens = {2}
  BmFrameLens = {2, 3}
  Arrivals = {1, 3}
  MaxArrived = 0
  MaxBmFrames = 4
INVARIANTS
  BlocksSafe
  BytesInOrder
  RingsKeepBytes
  FramesIntact
PROPERTIES
  QueuedLeaves
CHECK_DEADLOCK FALSE

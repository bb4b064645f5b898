SPECIFICATION ServicesSpec
CONSTANTS
  Clients = {"a"}
  Channels = {"data", "event", "burst"}
  Requests = {}
  Capacity = 2
  MaxPublished = 3
  MaxRequests = 1
  Savers = {"h1", "h2"}
  Bursts = {"b1"}
  FormatLists <- AllFormatLists
  Names = {"x"}
  Dirs = {"root", "sub"}
  MaxFiles = 2
  MaxAsks = 3
  Handlers = {"h1", "h2"}
  Controls = {"StartStream", "StopStream", "SetModeContinuous", "SetModeTrigger", "RequestBufferedData", "Ping"}
  MaxCalls = 4
INVARIANTS
  SubscriptionOrdered
  NoHoles
  LimitKept
  CreatedIsThere
  ShownIsTrue
  DataAskedInTriggerMode
PROPERTIES
  ServedArrives
CHECK_DEADLOCK FALSE

SPECIFICATION Spec
INVARIANTS
  GoodFramesOut
  NothingInvented
  ParseEnds
  FrameOrNothing
CHECK_DEADLOCK FALSE

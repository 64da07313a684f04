SPECIFICATION Spec
CONSTANTS
  Char <- MCChar
  Text <- MCText
  Chunk <- MCChunk
  Timing <- MCTiming
  MSG_CCH = 4
  CAP_CCH = 3
  Provider = {"lua"}
  HostCommand = {"runscript", "evalstring"}
  TimeRun = {FALSE, TRUE}
  CallbackFailure = {"get", "set", "revert"}
  NestWhileBuffering = FALSE
  MaxDepth = 3
  MaxNest = 2
  MaxSaid = 4
  MaxEmitted = 3
  MaxFailures = 1
  MaxRefusals = 1
INVARIANTS
  RoomForNul
  HeldOnlyWhileBuffering
PROPERTIES
  CallbacksReverted

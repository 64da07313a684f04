SPECIFICATION Spec
CONSTANTS
  Char <- MCChar
  Text <- MCText
  Chunk <- MCShortChunk
  Timing <- MCTiming
  MSG_CCH = 4
  CAP_CCH = 3
  Provider = {"lua"}
  HostCommand = {"runscript"}
  TimeRun = {FALSE}
  CallbackFailure = {}
  NestWhileBuffering = FALSE
  MaxDepth = 2
  MaxNest = 2
  MaxSaid = 4
  MaxEmitted = 3
  MaxFailures = 1
  MaxRefusals = 1
PROPERTIES
  CapturedWhole

SPECIFICATION Spec
CONSTANTS
  Char <- MCChar
  Text <- MCText
  Chunk <- MCChunk
  Timing <- MCTiming
  MSG_CCH = 4
  CAP_CCH = 3
  Provider = {"lua", "py", "rb"}
  HostCommand = {"runscript"}
  TimeRun = {FALSE}
  CallbackFailure = {"set"}
  NestWhileBuffering = FALSE
  MaxDepth = 3
  MaxNest = 2
  MaxSaid = 6
  MaxEmitted = 3
  MaxFailures = 1
  MaxRefusals = 1
INVARIANTS
  TypeOK
  TextInOrder
  NothingLeftAtPrompt
PROPERTIES
  FailureFollowsText
  ImplementsStream

SPECIFICATION FairSpec
CONSTANTS
  t1 = t1
  t2 = t2
  Thread <- MCThread
  MaxFrame = 1
  Provider = {"lua", "py"}
  Raising = {"lua"}
  Failure <- EngineCall
  ScopeOnSwitch = {"kept", "reset"}
  MaxSymbols = 2
  MaxGroups = 2
INVARIANTS
  TypeOK
  ThreadRestored
  FrameRestored
  AnswersForTarget
  GroupsBalanced
PROPERTIES
  QueryEnds

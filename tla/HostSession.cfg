SPECIFICATION Spec
CONSTANTS
  Provider = {"lua", "py", "rb"}
  LoadFailure <- MCBeforeInit
  Nested = {"runscript", "evalstring", "stopvm"}
  MaxDepth = 3
  MaxCreated = 3
  MaxRefs = 2
INVARIANTS
  TypeOK
  RecycledOutsideSession
  UnloadAsserts
PROPERTIES
  RunningStaysLoaded
  FreshMachine
  SessionPreservesVM
  ImplementsSession

SPECIFICATION Spec
CONSTANTS
  Provider = {"py"}
  LoadFailure <- MCBeforeInit
  Nested = {"startvm"}
  MaxDepth = 2
  MaxCreated = 3
  MaxRefs = 2
PROPERTIES
  SessionPreservesVM

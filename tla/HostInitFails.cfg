SPECIFICATION Spec
CONSTANTS
  Provider = {"lua"}
  LoadFailure = {"init"}
  Nested = {}
  MaxDepth = 2
  MaxCreated = 3
  MaxRefs = 2
PROPERTIES
  FreshMachine

SPECIFICATION FairHostSpec
CONSTANTS
  Switchlike <- MCSwitchlike
  Plain <- MCPlain
  Registered <- MCRegistered
  Line <- MCLine
  Executable = "windbg"
  Unquoted <- MCUnquoted
  Client = {c1, c2}
  OwnClient = own
  NoClient = none
  AcquireFailure = {"DebugSymbols"}
  MaxChanges = 1
  Directory = {"a", "b", "c"}
  PathArgument <- MCPathArgument
  MaxElems = 3
INVARIANTS
  HostTypeOK
  SplitsLine
  RunsNamedProvider
  InterfacesOfCaller
  ReferencesBalanced
  PathIsArgument
  FoundFirst
  ArgumentsWhole
PROPERTIES
  CommandEnds

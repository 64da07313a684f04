SPECIFICATION Spec
CONSTANTS
  Switchlike <- MCSwitchlike
  Plain <- MCPlain
  Registered <- MCRegistered
  Line <- MCLine
INVARIANTS
  RunsScriptGiven

SPECIFICATION Spec
CONSTANTS
  A = A
  B = B
  NoImage = NoImage
  Base = {1, 2}
  Image = {A, B}
  Type = {1, 2}
  Symbol <- MCSymbol
  Loadable <- MCLoadable
  MaxUnloads = 1
  Provider = {"lua", "py", "rb"}
  Tag = {"class", "pointer"}
  LuaMemory <- MCLuaMemory
  MaxHeld = 1
  MAX_READ_STRING_LEN = 4
  Byte = 2
  Count <- MCCount
  Rest = {0, 1}
INVARIANTS
  TypeOK
  EntriesTrue
  NamesOfData
  NamedAsAsked
  NullNotTraversed
  ValuesFaithful
  StringsAsAsked
  LanguagesAgree
  AnswersFromData

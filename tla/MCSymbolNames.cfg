SPECIFICATION ProgramSpec
CONSTANTS
  kMaxDepth = 12
  SourceName <- MCSourceName
  NoName <- MCNoName
  Unnamed <- MCUnnamed
  Value = {0, 4}
  Name <- MCName
  SymbolTables = {}
  Programs <- MCPrograms
INVARIANTS
  NamesAreBest
  NamesAreReadable
CHECK_DEADLOCK FALSE

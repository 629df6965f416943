SPECIFICATION ProgramSpec
CONSTANTS
  kMaxDepth = 12
  SourceName <- MCSourceName
  NoName <- MCNoName
  Unnamed <- MCUnnamed
  Value = {0, 4}
  Name <- MCName
  SymbolTables = {}
  Programs <- MCMisleading
INVARIANTS
  NamesAreTrue
CHECK_DEADLOCK FALSE

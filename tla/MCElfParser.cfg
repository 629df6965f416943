SPECIFICATION FairSpec
CONSTANTS
  Widths <- MCWidths
  Files <- MCFiles
  kMaxSections = 6
  kMaxSymbols = 5
INVARIANTS
  FindsEverySymbol
  ReadsStayInBounds
  CutFilesLoseOnlyTheEnd
PROPERTIES
  ParseReturns
CHECK_DEADLOCK FALSE

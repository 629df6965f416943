SPECIFICATION FairSpec
CONSTANTS
  Widths <- MCWidths
  Files <- MCFiles
  Names = {".eh_frame", ".eh_frame_hdr"}
INVARIANTS
  TypeOK
  FindsEveryRange
PROPERTIES
  ParseReturns
CHECK_DEADLOCK FALSE

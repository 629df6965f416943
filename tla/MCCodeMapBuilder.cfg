SPECIFICATION Spec
CONSTANTS
  Widths <- MCWidths
  Files <- MCFiles
  Names = {".text"}
INVARIANTS
  TypeOK
  RegionsAreBacked
  RegionsAreTheCode
  RegionsAreInOrder
CHECK_DEADLOCK FALSE

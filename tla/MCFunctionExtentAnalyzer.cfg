SPECIFICATION FairAnalyzeSpec
CONSTANTS
  AddressLimit = 32
  Requests = {}
  Images <- MCImages
  Inputs <- MCInputs
  OptionSets <- MCOptions
INVARIANTS
  AnalyzerTypeOK
  FunctionsAreDisjoint
  NothingIsDropped
  EntriesAreCovered
  StrongEntriesAreKept
  GapFunctionsAreNew
  GapsAreExhausted
PROPERTIES
  AnalyzeReturns
CHECK_DEADLOCK FALSE

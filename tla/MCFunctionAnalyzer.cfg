SPECIFICATION FairPipelineSpec
CONSTANTS
  AddressLimit = 28
  Requests = {}
  Inputs = {}
  OptionSets = {}
  n1 = n1
  n2 = n2
  NoName = NoName
  Name <- MCName
  Images <- MCImages
  ElfImages <- MCElfImages
  AnalysisOptionSets <- MCAnalysisOptions
INVARIANTS
  EntriesAreReported
  FirstSizeIsKept
  LastEndsTheFunction
  FunctionsEndForAReason
PROPERTIES
  ReportIsMade
CHECK_DEADLOCK FALSE

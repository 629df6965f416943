SPECIFICATION PipelineSpec
CONSTANTS
  AddressLimit = 28
  Requests = {}
  Inputs = {}
  OptionSets = {}
  n1 = n1
  n2 = n2
  NoName = NoName
  Name <- MCName
  Images <- MCReadmeImages
  ElfImages <- MCReadmeElfImages
  AnalysisOptionSets <- MCAnalysisOptions
INVARIANTS
  NoSymbolsIgnoresSymbols
CHECK_DEADLOCK FALSE

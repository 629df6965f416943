SPECIFICATION FairAnalyzeSpec
CONSTANTS
  AddressLimit = 32
  Requests = {}
  Images <- MCTopImages
  Inputs <- MCTopInputs
  OptionSets <- MCDefaults
PROPERTIES
  AnalyzeReturns
CHECK_DEADLOCK FALSE

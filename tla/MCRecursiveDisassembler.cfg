SPECIFICATION FairSpec
CONSTANTS
  AddressLimit = 28
  Images <- MCImages
  SeedSets <- MCSeedSets
  Caps <- MCCaps
INVARIANTS
  StartsAreSeedsAndCallees
PROPERTIES
  FindsReachableCode
  DiscoverReturns
CHECK_DEADLOCK FALSE

SPECIFICATION Spec
CONSTANTS
  AddressLimit = 28
  Images <- MCImages
  Requests <- MCRequests
INVARIANTS
  TypeOK
  WorklistIsFresh
  ExtentIsTight
  BlocksPartitionTheCode
  BlocksAreBasic
  EveryBlockIsReached
  CacheIsCoherent
  RegionLookupIsExact
  GraphsFollowTheProcessor
PROPERTIES
  CoversReachableCode

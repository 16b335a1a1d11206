CONSTANTS
  Quots = 3
  Rems = 2
  Capacity = 2
  NumPds = 3
  BatchSize = 2
  NumBuckets = 3
  BucketCapacity = 2
  MaxSpareQuot = 2
  MaxItems = 7
  SpareFilterBits <- MCSpareFilterBits
  ClientKeys <- OneDictKeys
SPECIFICATION Spec
INVARIANTS
  TypeOK
  NoFalseNegatives
  LastQuotDecodes
  OverflowedIsFull
  FalsePositivesPastLast
PROPERTY KeepsPromise
CONSTRAINT SpareBound

CONSTANTS
  Quots = 3
  Rems = 2
  Capacity = 2
  NumPds = 3
  BatchSize = 2
  NumBuckets = 3
  BucketCapacity = 3
  MaxSpareQuot = 1
  MaxItems = 8
  SpareFilterBits <- MCSpareFilterBits
  ClientKeys <- SharedKeys
SPECIFICATION Spec
INVARIANTS
  LowestInL1
  SpareFilterCovers
  Conservation
CONSTRAINT SpareBound

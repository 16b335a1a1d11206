CONSTANTS
  Quots = 3
  Rems = 2
  Capacity = 2
  NumPds = 3
  BatchSize = 2
  NumBuckets = 3
  BucketCapacity = 2
  MaxSpareQuot = 1
  MaxItems = 4
  SpareFilterBits <- MCSpareFilterBits
  ClientKeys <- Level3Keys
SPECIFICATION Spec
INVARIANT FindsEverythingIn
CONSTRAINT SpareBound

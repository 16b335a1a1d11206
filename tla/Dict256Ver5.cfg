CONSTANTS
  Quots = 3
  Rems = 2
  Capacity = 2
  number_of_pd = 2
  num_of_buckets = 3
  bucket_size = 1
  MAX_CUCKOO_LOOP = 3
  empty_slot = empty_slot
  MaxItems = 7
  MaxFailures = 2
  BucketsOf <- MCBucketsOf
  SpareFilterBits <- MCSpareFilterBits
SPECIFICATION Spec
INVARIANTS
  TypeOK
  SpareKeepsSent
  BranchIsExact
PROPERTY KeepsPromise
CHECK_DEADLOCK FALSE

CONSTANTS
  NumBuckets = 2
  TagsPerBucket = 2
  MaxTag = 2
  max_relocations = 3
  MaxFailed = 2
  AltIndex <- AltIndexXor
SPECIFICATION Spec
INVARIANTS
  TypeOK
  NoGhosts
  MissingAreCounted
PROPERTY KeepsPromise

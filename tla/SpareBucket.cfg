CONSTANTS
  Quots = 2
  Rems = 2
  BatchSize = 3
  BucketCapacity = 6
  MaxSpareQuot = 1
  WORD_BITS = 5
  QuotsPerWord = 2
  UsedSlots <- MCUsedSlots
SPECIFICATION Spec
INVARIANTS
  TypeOK
  FindsTheSlots
  FindMaskIsContiguous
  TakesTheOneMeant
PROPERTY
  KeepsSlots

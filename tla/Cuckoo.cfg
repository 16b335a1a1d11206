CONSTANTS
  NumBuckets = 2
  TagsPerBucket = 2
  MaxTag = 3
  kMaxCuckooCount = 4
  AltIndex <- AltIndexXor
SPECIFICATION Spec
INVARIANTS
  TypeOK
  Conservation
  VictimHasNoRoom
  AnswersByFingerprint
PROPERTIES
  DeleteFindsWhatIsIn
  CallsReturn
  KeepsPromise

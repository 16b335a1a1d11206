CONSTANTS
  Quots = 4
  Rems = 2
  Capacity = 4
  DROPPED_BITS = 1
  QUOT_BITS = 2
  BYTE_BITS = 1
  MaxGiven = 2
SPECIFICATION Spec
INVARIANTS
  TypeOK
  FindsTheElements
PROPERTY KeepsPd
CHECK_DEADLOCK FALSE

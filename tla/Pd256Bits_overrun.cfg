CONSTANTS
  Quots = 3
  Rems = 2
  Capacity = 4
  DROPPED_BITS = 2
  QUOT_BITS = 2
  BYTE_BITS = 1
  MaxGiven = 2
SPECIFICATION Spec
INVARIANT StaysInBody
CHECK_DEADLOCK FALSE

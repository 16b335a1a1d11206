CONSTANTS
  QUOTS = 5
  MAX_CAPACITY = 5
  Rems = {0, 1}
  WORD_BITS = 6
SPECIFICATION Spec
INVARIANTS
  TypeOK
  FindReadsTheRun
  UpdatesTheRuns
PROPERTY KeepsRuns
CHECK_DEADLOCK FALSE

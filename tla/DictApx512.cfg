CONSTANTS
  QUOTS = 3
  MAX_CAPACITY = 2
  Rems = {1, 2}
  number_of_pd = 2
  MaxInsertions = 5
SPECIFICATION Spec
INVARIANTS
  TypeOK
  NoGhosts
  MissingAreCounted
PROPERTIES
  InsertedIsFound
CHECK_DEADLOCK FALSE

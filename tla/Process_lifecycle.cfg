SPECIFICATION FairSpec
CONSTANTS
  c1 = c1
  w1 = w1
  w2 = w2
  Callers <- OneCaller
  Writers <- MCWriters
  Reader = Reader
  NoOne = NoOne
  Inherits = TRUE
  MaxLines = 2
  PipeLines = 1
CHECK_DEADLOCK FALSE
INVARIANTS
  CloseReaps
PROPERTIES
  CloseCompletes

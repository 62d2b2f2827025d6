SPECIFICATION FairToolSpec
CONSTANTS
  Runner = Runner
  Callers <- MCCallers
  Writers <- NoWriters
  Reader = Reader
  NoOne = NoOne
  Inherits = TRUE
  MaxLines = 3
  PipeLines = 2
  MaxOutput = 1
CHECK_DEADLOCK FALSE
INVARIANTS
  ResultIsWhole
  NothingLeftRunning
  AnswerIsTrue
PROPERTIES
  EveryCallAnswers

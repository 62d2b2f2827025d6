SPECIFICATION ProvidersSpec
CONSTANTS
  MaxEvents = 7
  MaxBlocks = 2
  MaxChoices = 3
  MaxFragments = 3
  MaxIndex = 1
  MaxParts = 3
  MaxCalls = 2
  MaxBody = 6
  Makers = {"anthropic", "openrouter", "ollama"}
  MaxSaid = 2
  MaxMessages = 5
CHECK_DEADLOCK FALSE
INVARIANTS
  RepliesAreWhole
  ResultsAnswerCalls
  SameConversation

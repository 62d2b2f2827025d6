SPECIFICATION Spec
CONSTANTS
  c1 = c1
  c2 = c2
  m1 = m1
  m2 = m2
  NoModel = NoModel
  FirstModel = m1
  CallIds <- TwoIds
  Models <- TwoModels
  ContextSize <- Sizes
  ThresholdPercent = 50
  TokenCounts = {5, 6}
  MaxIterations = 2
  MaxMessages = 7
  EmptyFirstInput = FALSE
  SharedBox = TRUE
INVARIANTS
  ConversationWellFormed
  NothingStale
  FeedbackTells
PROPERTIES
  CompactionKeepsTurns

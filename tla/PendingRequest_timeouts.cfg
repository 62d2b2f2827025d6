SPECIFICATION FairSpec
CONSTANTS
  k1 = k1
  k2 = k2
  g1 = g1
  g2 = g2
  Calls <- MCCalls
  Resetters <- MCResetters
  NoCall = NoCall
  NoOne = NoOne
  Timeout = 2
  MaxProgress = 2
INVARIANTS
  NoTimerAfterReturn
  TimeoutMeansQuiet
PROPERTIES
  FiredStaysFired
  CallsReturn

SPECIFICATION FairChatSpec
CONSTANTS
  a = a
  b = b
  d = d
  m1 = m1
  m2 = m2
  m3 = m3
  e1 = e1
  bad = bad
  Callers <- MCCallers
  Models <- MCModels
  Configured <- MCConfigured
  FirstModel = m1
  Efforts <- MCEfforts
  BadEffort = bad
  FirstEffort = e1
  Streamer = a
  Patient <- MCPatient
  Timeout = 1
  MaxChunks = 1
INVARIANTS
  RequestsSeeOneConfig
  StallReported
  ClosedIsReleased
PROPERTIES
  OperationsReturn

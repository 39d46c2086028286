SPECIFICATION FairSpec
CONSTANTS
  c1 = c1
  c2 = c2
  p1 = p1
  p2 = p2
  s1 = s1
  s2 = s2
  d1 = d1
  d2 = d2
  Client <- MCClient
  Proc <- MCProc
  Service <- MCService
  Driver <- MCDriver
  Setups <- MCSetups
  MaxCalls = 3
  MaxEvents = 1
CHECK_DEADLOCK FALSE
INVARIANTS
  OneExecutor
  BinaryWhole
  CachesHonest
  AnswersComplete
PROPERTIES
  CallsEnd

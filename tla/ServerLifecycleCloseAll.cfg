SPECIFICATION FairSpec
CONSTANTS
  s1 = s1
  s2 = s2
  e1 = e1
  e2 = e2
  c1 = c1
  c2 = c2
  c3 = c3
  Server = {s1, s2}
  Endpoint = {e1, e2}
  Closer = {c3}
  Target <- ClosersOfOneAndAll
  All = All
CHECK_DEADLOCK FALSE
PROPERTIES
  CloseClosesAllServers

SPECIFICATION FairSpec
CONSTANTS
  x1 = x1
  x2 = x2
  svcA = svcA
  svcB = svcB
  home = home
  away = away
  Server = {x1, x2}
  Service = {svcA, svcB}
  Client = {c1, c2}
  Port = {1, 2, 3}
  FixedPort = 1
  Region = {home, away}
  USEast = home
  Account = {"k1", "k2", "default"}
  Setups <- AllSetups
  MaxFaults = 1
  None = None
CHECK_DEADLOCK FALSE
INVARIANTS
  ReadyMeansServed
  StartFailsExplained
  SessionsRight
PROPERTY
  EverythingEnds

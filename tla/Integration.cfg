SPECIFICATION Spec
CONSTANTS
  v1 = v1
  c1 = c1
  c2 = c2
  Vol <- MCVol
  Caller <- MCCaller
  Configs <- MCConfigs
  MaxRequests = 4
  MaxEvents = 1
SYMMETRY Symmetry
CHECK_DEADLOCK FALSE
INVARIANTS
  CountsMatch
  MountedWhileUsed
  UnmountedWhenUnused
PROPERTIES
  DataKept

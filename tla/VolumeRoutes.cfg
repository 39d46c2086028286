CONSTANTS
    s1 = s1  s2 = s2  v1 = v1  v2 = v2  v3 = v3  r1 = r1  r2 = r2  d = d  i1 = i1  i2 = i2
    Service = {s1, s2}
    NoService = NoService
    Driver = {d}
    DriverOf <- MCDriverOf
    Vol = {v1, v2, v3}
    Home <- MCHome
    NilOnDetach = {s1}
    Watched = {s2}
    Instance = {i1, i2}
    NoOne = NoOne
    Handler = {r1, r2}
    HostOf <- MCHostOf
    Arrival <- MCArrival
    Mask <- MCMask
    Snapped = {v1}
    Old = {v2, v3}
    Holders <- MCHolders
    MaxRequests = 1
    MaxFaults = 1
SPECIFICATION Spec
INVARIANTS
  ListingsComplete
  DetachAllHonest
  StatesHonest
CHECK_DEADLOCK FALSE

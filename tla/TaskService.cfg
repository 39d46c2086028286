SPECIFICATION Spec
CONSTANTS
  r1 = r1
  r2 = r2
  r3 = r3
  s1 = s1
  s2 = s2
  Request = {r1, r2}
  Service = {s1}
  Generic = Generic
  None = None
  Arrival <- MixedArrival
  ResponseValidation = TRUE
CHECK_DEADLOCK FALSE
INVARIANTS
  LiveTaskInspectable
  RepliesHonest
  Consistent
PROPERTIES
  Refines

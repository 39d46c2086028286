SPECIFICATION FairSpec
CONSTANTS
  r1 = r1
  r2 = r2
  r3 = r3
  s1 = s1
  s2 = s2
  Request = {r1, r2}
  Service = {s1}
  Generic = Generic
  None = None
  Arrival <- LiveArrival
  ResponseValidation = FALSE
CHECK_DEADLOCK FALSE
PROPERTIES
  RequestsAnswered
  TasksComplete

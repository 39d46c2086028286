SPECIFICATION Spec
CONSTANTS
  Hosts = {h1, h2}
  Vols = {v1, v2}
  Old = {v1, v2}
  Names = {n1}
  NoVol = NoVol
  NoName = NoName
  Tagged = {"gcepd", "ebsTagged"}
  Zones = {za, zb}
  Home = za
  Spread = {"ebs", "fittedcloud"}
  USEast = zb
  MaxRequests = 3
  MaxApart = 2
  MaxFaults = 1
  Keys = {1, 2}
  PageSize = 1
  Drivers = {"ebs", "ebsTagged", "fittedcloud", "gcepd", "dobs", "azureud", "scaleio", "vbox", "rbd", "efs", "isilon", "isilonShared", "s3fs"}
INVARIANTS
  AnswersTrue
  SingleAttachment
  NamesUnique
  NoOrphans
  
  RefusedAttachKeeps
  ForcedRemoveEmpties
PROPERTIES
  OnlyDetachersDetach
  ObjectsKept
SYMMETRY Symmetry
CHECK_DEADLOCK FALSE

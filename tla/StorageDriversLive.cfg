SPECIFICATION FairSpec
CONSTANTS
  Hosts = {h1, h2}
  Vols = {v1, v2}
  Old = {v1}
  Names = {n1}
  NoVol = NoVol
  NoName = NoName
  Tagged = {"gcepd", "ebsTagged"}
  Zones = {za, zb}
  Home = za
  Spread = {"ebs", "fittedcloud"}
  USEast = zb
  MaxRequests = 2
  MaxApart = 1
  MaxFaults = 1
  Keys = {1, 2}
  PageSize = 1
  Drivers = {"ebs", "fittedcloud", "gcepd", "dobs", "azureud", "scaleio", "vbox", "rbd", "efs", "isilon", "s3fs"}
PROPERTIES
  RequestsEnd
CHECK_DEADLOCK FALSE

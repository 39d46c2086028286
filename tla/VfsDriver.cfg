SPECIFICATION Spec
CONSTANTS
  i1 = i1
  i2 = i2
  None = None
  Instance = {i1, i2}
  MaxVolID = 2
  MaxSnapID = 1
  MaxObjects = 3
  MaxAttach = 2
SYMMETRY InstancePerms
INVARIANTS
  AcknowledgedKept
  RestoreFaithful
  ListingHonest
PROPERTIES
  OthersKeepAttachments

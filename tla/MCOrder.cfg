SPECIFICATION Spec
CONSTANTS
  Absent = Absent
  NoBound = NoBound
  NoRef = NoRef
  e = e  x = x  y = y  z = z  u = u  v = v
  Types <- MCTypes
  Raws = {x, y, z}
  Unparsable = {z}
  URLs = {u}
  Endpoints = {e}
  Secrets = {}
  OrderSpecs <- OneOfTwoOrBroken
  Clusters <- NoSecrets
  AWPhases <- BriefPhases
  ByHand = TRUE
  MaxLag = 2
  MaxUserOps = 3
  MaxFaults = 1
INVARIANTS TypeOK RestMeansDone OrderInv RestInv OwnerProtected LifeInv
PROPERTIES EditsSurvive GoesWithEmptyStatus ImplementsOrderLife
CHECK_DEADLOCK FALSE

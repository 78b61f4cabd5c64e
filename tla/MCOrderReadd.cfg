SPECIFICATION FairSpec
CONSTANTS
  Absent = Absent
  NoBound = NoBound
  NoRef = NoRef
  e = e  x = x  y = y  z = z  u = u  v = v
  Types <- MCTypes
  Raws = {x}
  Unparsable = {z}
  URLs = {u}
  Endpoints = {e}
  Secrets = {}
  OrderSpecs <- OneOrNone
  Clusters <- NoSecrets
  AWPhases <- BriefPhases
  ByHand = FALSE
  MaxLag = 2
  MaxUserOps = 3
  MaxFaults = 0
PROPERTIES OrderFulfilled
CHECK_DEADLOCK FALSE

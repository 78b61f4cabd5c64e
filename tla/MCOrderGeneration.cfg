SPECIFICATION Spec
CONSTANTS
  Absent = Absent
  NoBound = NoBound
  NoRef = NoRef
  e = e  x = x  y = y  z = z  u = u  v = v
  Types <- MCTypes
  Raws = {x}
  Unparsable = {z}
  URLs = {u, v}
  Endpoints = {e}
  Secrets = {}
  OrderSpecs <- OneOrNone
  Clusters <- Moves
  AWPhases <- BriefPhases
  ByHand = TRUE
  MaxLag = 2
  MaxUserOps = 2
  MaxFaults = 0
PROPERTIES EndpointChangeDetected
CHECK_DEADLOCK FALSE

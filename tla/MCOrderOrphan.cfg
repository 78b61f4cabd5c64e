SPECIFICATION Spec
CONSTANTS
  Absent = Absent
  NoBound = NoBound
  NoRef = NoRef
  e = e  x = x  y = y  z = z  u = u  v = v
  Types <- MCTypes
  Raws = {x}
  Unparsable = {z}
  URLs = {u}
  Endpoints = {e}
  Secrets = {}
  OrderSpecs <- OneOrNone
  Clusters <- NoSecrets
  AWPhases <- BriefPhases
  ByHand = TRUE
  MaxLag = 2
  MaxUserOps = 2
  MaxFaults = 0
INVARIANTS NoFragmentLeftBehind
CHECK_DEADLOCK FALSE

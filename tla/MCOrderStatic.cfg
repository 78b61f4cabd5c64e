SPECIFICATION FairSpec
CONSTANTS
  Absent = Absent
  NoBound = NoBound
  NoRef = NoRef
  e = e  x = x  y = y  z = z  u = u  v = v
  Types <- MCTypes
  Raws = {x, y}
  Unparsable = {z}
  URLs = {u}
  Endpoints = {e}
  Secrets = {}
  OrderSpecs <- Pair
  Clusters <- Incomplete
  AWPhases <- BriefPhases
  ByHand = FALSE
  MaxLag = 2
  MaxUserOps = 2
  MaxFaults = 1
PROPERTIES OrderFulfilled ResultReachesOrder DeletedOrderLeavesNothing
CHECK_DEADLOCK FALSE

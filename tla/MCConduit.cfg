SPECIFICATION ConduitFairSpec
CONSTANTS
  Absent = Absent
  NoBound = NoBound
  NoRef = NoRef
  e = e  x = x  u = u
  Types <- MCTypes
  Raws = {x}
  Unparsable = {}
  URLs = {u}
  Endpoints = {e}
  Secrets = {}
  OrderSpecs <- OneOrNone
  Clusters <- EndpointOrNot
  ArgoPhases <- BriefPhases
  MaxLag = 2
  MaxUserOps = 2
  MaxFaults = 1
INVARIANT WorkflowProtected
PROPERTIES ImplementsOrder ImplementsArtifactWorkflow OrderDelivered NothingRunsOn
CHECK_DEADLOCK FALSE

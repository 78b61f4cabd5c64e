SPECIFICATION AWFairSpec
CONSTANTS
  Absent = Absent
  NoBound = NoBound
  Names = {a}
  Owners <- MCOwners
  MaxLag = 3
  ReuseLag = 2
  MaxFaults = 2
INVARIANTS ResultIsOfWorkflow ResultInv
PROPERTIES DeletionCompletes ResultReported EventuallyStarted

SPECIFICATION AWSpec
CONSTANTS
  Absent = Absent
  NoBound = NoBound
  Names = {a}
  Owners <- MCOwners
  MaxLag = 3
  ReuseLag = 3
  MaxFaults = 2
INVARIANTS AWTypeOK AWInv WorkflowHasOwner PhaseBackedByWorkflow
PROPERTIES CompletedIsFinal ImplementsLife

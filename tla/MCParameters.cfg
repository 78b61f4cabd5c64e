SPECIFICATION Spec
CONSTANTS
  Null = Null
  NoRef = NoRef
  Malformed = Malformed
  ArtifactSpecs <- MCSpecs
  Endpoints <- MCEndpoints
  TypeParameters <- MCTypeParameters
INVARIANTS ParametersAreLeaves TypeOverrides SecretFlagMatchesVolume
PROPERTIES WalkEnds
CHECK_DEADLOCK FALSE

SPECIFICATION EcosystemSpec
CONSTANTS
  N = 3
  Unknown = 0
  Score = {0, 100}
  Confidence = {50}
  ParentScore = 70
  ParentWeight = 1
  ChildWeight <- MCChildWeight
CHECK_DEADLOCK FALSE
INVARIANTS DependenciesFirst CycleExact FailuresUnbiased

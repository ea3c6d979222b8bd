SPECIFICATION Spec
CONSTANTS
  N = 3
  Resources = {"r1", "r2"}
  Workers = 1
  Outcomes = {"SUCCESS"}
  MaxResumes = 0
  MaxCrashes = 0
  Pipelines <- DiamondPipelines
INVARIANTS
  CleanRunSucceeds
CHECK_DEADLOCK FALSE

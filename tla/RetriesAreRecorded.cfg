SPECIFICATION Spec
CONSTANTS
  N = 3
  Resources = {"r1", "r2"}
  Workers = 2
  Outcomes = {"SUCCESS", "FAILED"}
  MaxResumes = 0
  MaxCrashes = 0
  Pipelines <- DiamondPipelines
INVARIANTS
  RetriesAreRecorded
CHECK_DEADLOCK FALSE

SPECIFICATION Spec
CONSTANTS
  N = 3
  Resources = {"r1", "r2"}
  Workers = 2
  Outcomes = {"SUCCESS", "FAILED"}
  MaxResumes = 1
  MaxCrashes = 0
  Pipelines <- DiamondPipelines
INVARIANTS
  ResumeLeavesNoGap
CHECK_DEADLOCK FALSE

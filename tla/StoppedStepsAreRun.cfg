SPECIFICATION Spec
CONSTANTS
  N = 2
  Resources = {"r1", "r2"}
  Workers = 2
  Outcomes = {"SUCCESS", "FAILED"}
  MaxResumes = 2
  MaxCrashes = 0
  Pipelines <- HumanPipelines
INVARIANTS
  StoppedStepsAreRun
CHECK_DEADLOCK FALSE

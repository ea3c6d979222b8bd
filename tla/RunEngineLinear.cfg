SPECIFICATION Spec
CONSTANTS
  N = 3
  Resources = {"r1", "r2"}
  Workers = 2
  Outcomes = {"SUCCESS", "PARTIAL_SUCCESS", "BLOCKED"}
  MaxResumes = 2
  MaxCrashes = 1
  Pipelines <- LinearPipelines
INVARIANTS
  CursorIsFrontier
  RecordIsResumePoint
  RecordedStepsNotRerun
  SuccessIsComplete
PROPERTIES
  RecordAdvances
  ImplementsDurableRun
CHECK_DEADLOCK FALSE

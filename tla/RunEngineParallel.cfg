SPECIFICATION FairSpec
CONSTANTS
  N = 3
  Resources = {"r1", "r2"}
  Workers = 2
  Outcomes = {"SUCCESS", "PARTIAL_SUCCESS", "FAILED"}
  MaxResumes = 1
  MaxCrashes = 1
  Pipelines <- ParallelPipelines
INVARIANTS
  TypeOK
  LockExclusion
  DependenciesFirst
  AttemptsBounded
  NoThreadOutlivesRun
PROPERTIES
  HaltStopsRun
  RunEnds
CHECK_DEADLOCK FALSE

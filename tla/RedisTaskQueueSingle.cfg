SPECIFICATION FairSpec
CONSTANTS
  Tasks <- TwoTasks
  Processes = {p1}
  Slots = {1, 2}
  MaxItems = 2
  MaxRuns = 3
  MaxCrashes = 1
  MaxFaults = 1
INVARIANTS
  RedeliveredOnlyByRestart
PROPERTIES
  EventuallyHandled
CHECK_DEADLOCK FALSE

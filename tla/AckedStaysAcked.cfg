SPECIFICATION Spec
CONSTANTS
  Tasks <- TwoTasks
  Processes = {p1}
  Slots = {1}
  MaxItems = 2
  MaxRuns = 1
  MaxCrashes = 0
  MaxFaults = 0
INVARIANTS
  AckedStaysAcked
CHECK_DEADLOCK FALSE

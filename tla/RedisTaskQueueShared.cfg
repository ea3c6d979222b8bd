SPECIFICATION Spec
CONSTANTS
  Tasks <- TwoTasks
  Processes = {p1, p2}
  Slots = {1}
  MaxItems = 2
  MaxRuns = 0
  MaxCrashes = 1
  MaxFaults = 1
SYMMETRY ProcessSymmetry
INVARIANTS
  TypeOK
PROPERTIES
  ImplementsAtLeastOnce
CHECK_DEADLOCK FALSE

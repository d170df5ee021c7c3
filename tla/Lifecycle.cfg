SPECIFICATION LifeSpec
CONSTANTS
  p1 = p1  p2 = p2  NOBODY = NOBODY
  Processes <- TwoProcesses
  MaxStepFaults = 2  MaxCrashes = 1  MaxBoots = 3
CHECK_DEADLOCK FALSE
INVARIANTS LoopHasResources LockServesLoop
PROPERTIES ShutdownEnds

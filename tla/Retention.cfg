SPECIFICATION Spec
CONSTANTS
  w1 = w1  w2 = w2  r1 = r1  NULL = NULL
  Workers <- TwoWorkers  Restorers <- OneRestorer
  Keep = 3  MaxClock = 2  MaxBackups = 2  MaxRestores = 2  MaxFaults = 1
SYMMETRY Symmetry
CHECK_DEADLOCK FALSE
INVARIANTS TypeOK Bounded SafetyKept
PROPERTIES OnlyExcessPruned

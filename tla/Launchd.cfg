SPECIFICATION Spec
CONSTANTS
  NULL = NULL
  MaxPids = 3  MaxFaults = 2  MaxSignals = 2  MaxStops = 1
CHECK_DEADLOCK FALSE
INVARIANTS OldKept NeverMixed AllOrNothing
PROPERTIES ReadyWhenCommitted SwitchEnds

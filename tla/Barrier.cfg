SPECIFICATION Spec
CONSTANTS
  c1 = c1  m1 = m1  m2 = m2  NULL = NULL
  Clients <- OneClient  Maintainers <- TwoMaintainers
  MaxWrites = 1  MaxRuns = 2  MaxFaults = 2
INVARIANTS MaintenanceExclusive NoStaleHandle
PROPERTIES Refines NobodyStaysWaiting

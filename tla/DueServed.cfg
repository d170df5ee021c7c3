SPECIFICATION Spec
CONSTANTS
  u1 = u1  u2 = u2  k1 = k1  k2 = k2  m1 = m1  m2 = m2  a1 = a1  a2 = a2
  NULL = NULL  Keep = Keep  Scheduler = Scheduler
  Subs <- TwoSubs  Urls <- OneUrl  Keys <- TwoKeys  Intervals <- LongInterval
  RetryCap = 1  ManualTasks <- NoTasks  Admins <- OneAdmin  Edits <- NoEdits  Found <- AnyFound
  MaxTime = 2  MaxFaults = 2
INVARIANTS NodesAccounted
PROPERTIES DueIsServed

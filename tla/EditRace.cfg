SPECIFICATION Spec
CONSTANTS
  u1 = u1  u2 = u2  k1 = k1  k2 = k2  m1 = m1  m2 = m2  a1 = a1  a2 = a2
  NULL = NULL  Keep = Keep  Scheduler = Scheduler
  Subs <- OneSub  Urls <- OneUrl  Keys <- OneKey  Intervals <- LongInterval
  RetryCap = 1  ManualTasks <- NoTasks  Admins <- TwoAdmins  Edits <- SwitchEdits  Found <- NoneFound
  MaxTime = 1  MaxFaults = 0
INVARIANTS EnabledIsScheduled

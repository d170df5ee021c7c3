SPECIFICATION Spec
CONSTANTS
  r1 = r1  r2 = r2  NULL = NULL  Keep = Keep
  Profiles <- TwoIds  Exceptions <- TwoIds  Rules <- TwoIds
  Kinds <- TwoKinds  Orders <- TwoOrders  Seeds <- TwoSeeds
  ProfileEdits <- SomeProfileEdits  ExceptionEdits <- SomeExceptionEdits
  RuleEdits <- SomeRuleEdits
  Requests <- TwoRequests  MaxRequests = 3
SYMMETRY Symmetry
CHECK_DEADLOCK FALSE
INVARIANTS OutputFits RowsFit

SPECIFICATION FairSpec
CONSTANTS
  a1 = a1
  a2 = a2
  w1 = w1
  w2 = w2
  Action <- OneAction
  Worker <- TwoWorkers
  KindOf <- ServiceKind
  Mode = "mock"
  ActionMaxAttempts = 2
  ReportsFailure = FALSE
  RecoveryLimit = 2
  MaxRuns = 2
  MaxCrashes = 1
  MaxFaults = 0
CHECK_DEADLOCK FALSE
PROPERTIES ApprovedIsAnswered

SPECIFICATION Spec
CONSTANTS
  a1 = a1
  a2 = a2
  w1 = w1
  w2 = w2
  Action <- OneAction
  Worker <- OneWorker
  KindOf <- ServiceKind
  Mode = "n8n"
  ActionMaxAttempts = 2
  ReportsFailure = FALSE
  RecoveryLimit = 500
  MaxRuns = 1
  MaxCrashes = 0
  MaxFaults = 0
CHECK_DEADLOCK FALSE
INVARIANTS AtMostOneEffect

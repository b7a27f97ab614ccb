SPECIFICATION Spec
CONSTANTS
  a1 = a1
  a2 = a2
  w1 = w1
  w2 = w2
  Action <- OneAction
  Worker <- TwoWorkers
  KindOf <- ServiceKind
  Mode = "n8n"
  ActionMaxAttempts = 2
  ReportsFailure = FALSE
  RecoveryLimit = 500
  MaxRuns = 3
  MaxCrashes = 2
  MaxFaults = 1
CHECK_DEADLOCK FALSE
INVARIANTS SoleExecutor AuditTrail
PROPERTIES UnknownIsNotRedispatched

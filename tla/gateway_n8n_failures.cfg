SPECIFICATION FairSpec
CONSTANTS
  a1 = a1
  a2 = a2
  w1 = w1
  w2 = w2
  Action <- OneAction
  Worker <- TwoWorkers
  KindOf <- ServiceKind
  Mode = "n8n"
  ActionMaxAttempts = 2
  ReportsFailure = TRUE
  RecoveryLimit = 500
  MaxRuns = 2
  MaxCrashes = 1
  MaxFaults = 0
CHECK_DEADLOCK FALSE
INVARIANTS TypeOK EffectsAreAuthorised CompletedIsBacked ApprovedIsScheduled
PROPERTIES SettledIsFinal ApprovedIsDispatched

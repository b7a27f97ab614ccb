SPECIFICATION Spec
CONSTANTS
  a1 = a1
  a2 = a2
  w1 = w1
  w2 = w2
  Action <- TwoActions
  Worker <- TwoWorkers
  KindOf <- MixedKinds
  Mode = "mock"
  ActionMaxAttempts = 3
  ReportsFailure = FALSE
  RecoveryLimit = 500
  MaxRuns = 2
  MaxCrashes = 2
  MaxFaults = 1
CHECK_DEADLOCK FALSE
INVARIANTS AuditTrail CompletedIsBacked EffectsAreAuthorised
PROPERTIES SettledIsFinal ImplementsLifecycle

SPECIFICATION Spec
CONSTANTS
  j1 = j1
  r1 = r1
  r2 = r2
  k1 = k1
  d1 = d1
  Job <- OneJob
  Reviewer <- TwoReviewers
  Reader <- NoReader
  Draft <- OneDraft
  WebhookSettings <- Configured
  MaxVersion = 2
  MaxCrashes = 0
CHECK_DEADLOCK FALSE
PROPERTIES VersionsAreImmutable

SPECIFICATION Spec
CONSTANTS
  j1 = j1
  r1 = r1
  r2 = r2
  k1 = k1
  d1 = d1
  Job <- OneJob
  Reviewer <- OneReviewer
  Reader <- NoReader
  Draft <- OneDraft
  WebhookSettings <- Configured
  MaxVersion = 1
  MaxCrashes = 0
CHECK_DEADLOCK FALSE
PROPERTIES ReviewStands

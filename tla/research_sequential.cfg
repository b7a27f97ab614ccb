SPECIFICATION IndexSpec
CONSTANTS
  j1 = j1
  r1 = r1
  d1 = d1
  Job <- OneJob
  Reviewer <- OneReviewer
  Reader <- NoReader
  Draft <- OneDraft
  WebhookSettings <- Either
  MaxVersion = 3
  MaxCrashes = 2
  Backends <- BothBackends
  Size = 4
  Overlap = 2
CHECK_DEADLOCK FALSE
INVARIANTS ApprovedIsLoaded PublishedIsWhole
PROPERTIES VersionsAreImmutable QueuedIsDispatched RetrievableIsKept

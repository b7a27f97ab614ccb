SPECIFICATION Spec
CONSTANTS
  j1 = j1
  r1 = r1
  r2 = r2
  k1 = k1
  d1 = d1
  Job <- OneJob
  Reviewer <- TwoReviewers
  Reader <- OneReader
  Draft <- OneDraft
  WebhookSettings <- Either
  MaxVersion = 2
  MaxCrashes = 1
CHECK_DEADLOCK FALSE
INVARIANTS TypeOK ApprovedNamesItsFile VersionsHaveNoGaps PublishedIsDelivered

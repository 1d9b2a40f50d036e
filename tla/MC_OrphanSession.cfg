\* A provider session created by a call that still rejects is left with no record its webhooks can find.
CONSTANTS
  u1 = u1
  p1 = p1
  p2 = p2
  Null = Null
  Users <- MCUsers
  Procs <- MCProcs
  MaxRecords = 2
  MaxTime = 2
  TTL = 1
  MaxStarts = 2
  MaxDeliveries = 1
  MaxReviews = 1
  MaxCrashes = 0
  DbFaults = FALSE
  AuditFaults = FALSE
  ReviewStatuses = {"pending", "under_review", "approved", "rejected", "expired", "requires_action"}

SPECIFICATION Spec
SYMMETRY MCSymmetry
INVARIANT ProviderSessionsLinked

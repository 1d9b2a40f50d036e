\* Manual review with every status the DTO accepts.
CONSTANTS
  u1 = u1
  p1 = p1
  p2 = p2
  Null = Null
  Users <- MCUsers
  Procs <- MCProcs
  MaxRecords = 1
  MaxTime = 1
  TTL = 1
  MaxStarts = 1
  MaxDeliveries = 0
  MaxReviews = 1
  MaxCrashes = 0
  DbFaults = FALSE
  ReviewStatuses = {"pending", "under_review", "approved", "rejected", "expired", "requires_action"}
SPECIFICATION Spec
PROPERTY SpecTransitions

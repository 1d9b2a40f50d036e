\* A restart between a status update and its emit loses the event.
CONSTANTS
  u1 = u1
  p1 = p1
  p2 = p2
  Null = Null
  Users <- MCUsers
  Procs <- MCProcs
  MaxRecords = 1
  MaxTime = 2
  TTL = 1
  MaxStarts = 1
  MaxDeliveries = 2
  MaxReviews = 0
  MaxCrashes = 1
  DbFaults = FALSE
  AuditFaults = TRUE
  ReviewStatuses = {"pending", "under_review", "approved", "rejected", "expired", "requires_action"}
SPECIFICATION EvSpec
INVARIANT ApprovalPublished

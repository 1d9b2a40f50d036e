\* Two deliveries for one inquiry: APPROVED emitted after the record was rejected.
CONSTANTS
  u1 = u1
  p1 = p1
  p2 = p2
  Null = Null
  Users <- MCUsers
  Procs <- MCProcs
  MaxRecords = 1
  MaxTime = 0
  TTL = 1
  MaxStarts = 1
  MaxDeliveries = 2
  MaxReviews = 0
  MaxCrashes = 0
  DbFaults = FALSE
  AuditFaults = TRUE
  ReviewStatuses = {"pending", "under_review", "approved", "rejected", "expired", "requires_action"}
SPECIFICATION EvSpec
PROPERTY ApprovedEventsCurrent

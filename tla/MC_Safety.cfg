\* Safety of the lifecycle and its events without repository faults or restarts.
CONSTANTS
  u1 = u1
  p1 = p1
  p2 = p2
  Null = Null
  Users <- MCUsers
  Procs <- MCProcs
  MaxRecords = 2
  MaxTime = 2
  TTL = 1
  MaxStarts = 2
  MaxDeliveries = 1
  MaxReviews = 1
  MaxCrashes = 0
  DbFaults = FALSE
  AuditFaults = FALSE
  ReviewStatuses = {"pending", "under_review", "approved", "rejected", "expired", "requires_action"}
SPECIFICATION EvSpec
SYMMETRY MCSymmetry
INVARIANT EvTypeOK
INVARIANT NoOrphanPending
INVARIANT ApprovalsExpire
INVARIANT ActiveLevelIsHighestFresh
PROPERTY ApprovalGrantsLevel
INVARIANT AuditTrailComplete
INVARIANT ApprovalPublished

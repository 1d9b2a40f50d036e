\* An approved result delivered twice.
CONSTANTS
  u1 = u1
  p1 = p1
  p2 = p2
  Null = Null
  Users <- MCUsers
  Procs <- MCProcs
  MaxRecords = 1
  MaxTime = 1
  TTL = 1
  MaxStarts = 1
  MaxDeliveries = 2
  MaxReviews = 0
  MaxCrashes = 0
  DbFaults = FALSE
  ReviewStatuses = {}
SPECIFICATION Spec
PROPERTY ApprovalIdempotent

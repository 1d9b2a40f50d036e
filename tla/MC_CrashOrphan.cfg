\* A restart between saving a record and its rollback.
CONSTANTS
  u1 = u1
  p1 = p1
  p2 = p2
  Null = Null
  Users <- MCUsers
  Procs <- MCProcs
  MaxRecords = 1
  MaxTime = 0
  TTL = 1
  MaxStarts = 1
  MaxDeliveries = 0
  MaxReviews = 0
  MaxCrashes = 1
  DbFaults = FALSE
  ReviewStatuses = {}
SPECIFICATION Spec
INVARIANT NoOrphanPending

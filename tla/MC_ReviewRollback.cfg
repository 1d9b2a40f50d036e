\* An admin review racing the rollback of startKyc.
CONSTANTS
  u1 = u1
  p1 = p1
  p2 = p2
  Null = Null
  Users <- MCUsers
  Procs <- MCProcs
  MaxRecords = 1
  MaxTime = 0
  TTL = 1
  MaxStarts = 1
  MaxDeliveries = 0
  MaxReviews = 1
  MaxCrashes = 0
  DbFaults = FALSE
  ReviewStatuses = {"approved"}
SPECIFICATION Spec
PROPERTY RecordsRefined

\* startKyc resuming a pending Onfido verification.
CONSTANTS
  u1 = u1
  p1 = p1
  p2 = p2
  Null = Null
  Users <- MCUsers
  Procs <- MCProcs
  MaxRecords = 2
  MaxTime = 0
  TTL = 1
  MaxStarts = 2
  MaxDeliveries = 0
  MaxReviews = 0
  MaxCrashes = 0
  DbFaults = FALSE
  ReviewStatuses = {}
SPECIFICATION Spec
PROPERTY ResumeUsesRecordProvider

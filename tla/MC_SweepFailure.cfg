\* One failing update in a sweep of two stale records.
CONSTANTS
  u1 = u1
  p1 = p1
  p2 = p2
  Null = Null
  Users <- MCUsers
  Procs <- MCProcs
  MaxRecords = 2
  MaxTime = 2
  TTL = 1
  MaxStarts = 2
  MaxDeliveries = 2
  MaxReviews = 0
  MaxCrashes = 0
  DbFaults = TRUE
  ReviewStatuses = {}
SPECIFICATION Spec
PROPERTY SweepVisitsWholeBatch

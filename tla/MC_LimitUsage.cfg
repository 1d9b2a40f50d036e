\* Two amount-guarded requests of a NONE user in one month.
CONSTANTS
  u1 = u1
  p1 = p1
  p2 = p2
  g1 = g1
  g2 = g2
  Null = Null
  Users <- MCUsers
  Procs <- MCProcs
  Gates <- MCGates
  MaxRecords = 1
  MaxTime = 0
  TTL = 1
  MaxStarts = 0
  MaxDeliveries = 0
  MaxReviews = 0
  MaxCrashes = 0
  DbFaults = FALSE
  ReviewStatuses = {}
  Amounts = {5, 6}
  MaxGuarded = 2
SPECIFICATION GuardSpec
PROPERTY LimitCountsUsage

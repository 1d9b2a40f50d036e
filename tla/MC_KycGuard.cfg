\* Level and amount guards racing approvals, expiry and the sweep.
CONSTANTS
  u1 = u1
  p1 = p1
  p2 = p2
  g1 = g1
  g2 = g2
  Null = Null
  Users <- MCUsers
  Procs <- MCProcs
  Gates <- MCGates
  MaxRecords = 1
  MaxTime = 2
  TTL = 1
  MaxStarts = 1
  MaxDeliveries = 1
  MaxReviews = 0
  MaxCrashes = 1
  DbFaults = FALSE
  ReviewStatuses = {}
  Amounts = {5, 6}
  MaxGuarded = 2
SPECIFICATION GuardSpec
INVARIANT GuardTypeOK

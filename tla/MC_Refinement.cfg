\* The lifecycle implements the record contract; the admin may only send a
\* review back to PENDING here (an approving review before a provider failure
\* is the review_rollback violation).
CONSTANTS
  u1 = u1
  p1 = p1
  p2 = p2
  Null = Null
  Users <- MCUsers
  Procs <- MCProcs
  MaxRecords = 2
  MaxTime = 2
  TTL = 1
  MaxStarts = 2
  MaxDeliveries = 1
  MaxReviews = 1
  MaxCrashes = 1
  DbFaults = TRUE
  ReviewStatuses = {"pending"}
SPECIFICATION Spec
SYMMETRY MCSymmetry
PROPERTY RecordsRefined

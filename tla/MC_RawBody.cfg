\* The Nest app is not created with rawBody: true.
CONSTANTS
  b1 = b1
  b2 = b2
  Bodies <- MCBodies
  Compact <- MCCompact
  RawBody = FALSE
  Window = 3
  MaxClock = 4
  MaxSends = 2
  MaxReceives = 2
SPECIFICATION Spec
INVARIANT GenuineAccepted

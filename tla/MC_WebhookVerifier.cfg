\* Genuine, late, replayed and forged webhooks with the raw body available.
CONSTANTS
  b1 = b1
  b2 = b2
  Bodies <- MCBodies
  Compact <- MCCompact
  RawBody = TRUE
  Window = 3
  MaxClock = 4
  MaxSends = 2
  MaxReceives = 2
SPECIFICATION Spec
INVARIANT AcceptedAuthentic
INVARIANT PersonaAcceptedFresh
INVARIANT GenuineAccepted

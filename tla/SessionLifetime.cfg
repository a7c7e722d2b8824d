SPECIFICATION SessionSpec
CONSTANTS
  Requests = {r1, r2, r3}
  Handlers = {h1, h2}
  Attempts = 2
  Idle = 2
  Absolute = 3
  ChallengeTtl = 1
  MaxTime = 4
INVARIANTS
  SessionTypeOK
  RefusalIsFinal
PROPERTIES
  ImplementsLease
SYMMETRY Interchangeable
CHECK_DEADLOCK FALSE

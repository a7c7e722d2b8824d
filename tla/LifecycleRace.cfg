CONSTANTS
  l1 = l1
  j1 = j1
  w1 = w1
  w2 = w2
  Loans = {l1}
  Jobs = {j1}
  Workers = {w1, w2}
  Quantities = {1}
  InitStock = 0
  MaxPlans = 1
SYMMETRY Symmetry
SPECIFICATION LifecycleSpec
INVARIANTS
  LifecycleTypeOK
  StatusControlsAvailability
  NoOrphanHold
PROPERTIES
  RetirementIsFinal
\* loans and tickets are used up, or closed
CHECK_DEADLOCK FALSE

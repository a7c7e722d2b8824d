CONSTANTS
  l1 = l1
  l2 = l2
  j1 = j1
  w1 = w1
  Loans = {l1, l2}
  Jobs = {j1}
  Workers = {w1}
  Quantities = {1}
  InitStock = 1
  MaxPlans = 1
SPECIFICATION LifecycleSpec
INVARIANTS
  NoGhostAvailability
\* loans and tickets are used up, or closed
CHECK_DEADLOCK FALSE

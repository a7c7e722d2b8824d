CONSTANTS
  j1 = j1
  j2 = j2
  w1 = w1
  Jobs = {j1, j2}
  Workers = {w1}
  Quantities = {1}
  InitStock = 2
  MaxPlans = 2
  Offices <- MCOffices
SYMMETRY Symmetry
SPECIFICATION OfficeSpec
INVARIANTS
  OneActiveJob
\* loans and tickets are used up, or closed
CHECK_DEADLOCK FALSE

CONSTANTS
  j1 = j1
  j2 = j2
  w1 = w1
  w2 = w2
  Jobs = {j1, j2}
  Workers = {w1, w2}
  Quantities = {1}
  InitStock = 2
  MaxPlans = 2
  Offices <- MCOffices
SYMMETRY Symmetry
SPECIFICATION OfficeSpec
INVARIANTS
  RepairTypeOK
  UnderRepairHasActiveJob
  HandoverSettlesRequisition
  PartsAccountedInTurn
  RejectedPlanCanBeRediagnosedInTurn
\* no handler applies once every ticket is closed
CHECK_DEADLOCK FALSE

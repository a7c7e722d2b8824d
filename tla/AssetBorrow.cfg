CONSTANTS
  l1 = l1
  l2 = l2
  l3 = l3
  Loans = {l1, l2, l3}
SPECIFICATION BorrowSpec
INVARIANTS
  BorrowTypeOK
  AtMostOneOpenLoan
  AvailabilityMirrorsLoans
PROPERTIES
  ImplementsCustody
\* every loan is used once: when all are closed, or the asset is damaged,
\* no handler of this service applies
CHECK_DEADLOCK FALSE

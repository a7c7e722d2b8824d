CONSTANTS
  e1 = e1
  e2 = e2
  e3 = e3
  w1 = w1
  w2 = w2
  Extensions = {e1, e2, e3}
  Workers = {w1, w2}
  Dates = {1, 2, 3}
  Loads = {1, 2}
SYMMETRY Interchangeable
SPECIFICATION DeskSpec
INVARIANTS
  ExtensionTypeOK
  DueDateWasGranted
  CountWithinGranted
  HistoryKeptInTurn
\* extensions are used up
CHECK_DEADLOCK FALSE

SPECIFICATION DeadlineSpec
CONSTANTS
  ann = ann
  bob = bob
  Loans = {1, 2}
  Users = {ann, bob}
  Borrower <- MCBorrower
  Staff = {ann}
  Timers = {startup, interval}
  Dates = {0, 1}
  Window = 1
  BatchSize = 1
  Horizon = 1
  MaxSwitches = 1
INVARIANTS
  DeadlineTypeOK
PROPERTIES
  DeadlineInForce
  NoReminderAfterOverdue
  AnnouncedOnce
  OverdueIsAnnounced
CHECK_DEADLOCK FALSE

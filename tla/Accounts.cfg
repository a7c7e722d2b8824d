SPECIFICATION MCAccountSpec
CONSTANTS
  Users = {u1, u2, u3}
  Workers = {w1, w2, w3}
  MaxRequests = 3
INVARIANTS
  AccountTypeOK
  AdminRemainsUnlessOvertaken
  LockSerializesUnlessOvertaken
SYMMETRY Interchangeable
CHECK_DEADLOCK FALSE

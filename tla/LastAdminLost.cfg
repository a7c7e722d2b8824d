SPECIFICATION RoleChangeSpec
CONSTANTS
  Users = {u1, u2, u3}
  Workers = {w1, w2}
  MaxRequests = 5
INVARIANTS
  AdminRemains
SYMMETRY Interchangeable
CHECK_DEADLOCK FALSE

SPECIFICATION AccessSpec
CONSTANTS
  Login = {l1, l2, l3}
  MaxAttempts = 2
  Window = 1
  MaxTime = 2
  Role = {designer, viewer}
  Change = {c1, c2}
  MaxChanges = 3
SYMMETRY Interchangeable
CONSTRAINT OneHalf
INVARIANTS
  AccessTypeOK
  FailuresBounded
  EarlyPopsBounded
  OldRolesAreGone
CHECK_DEADLOCK FALSE

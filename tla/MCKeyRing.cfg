SPECIFICATION KeyRingSpec
CONSTANTS
  Credential = {c1, c2}
  Request = {r1, r2}
  MaxRevisions = 2
INVARIANTS
  KeyRingTypeOK
  RevisionsInOrder
  RevisionsReadable
CHECK_DEADLOCK FALSE

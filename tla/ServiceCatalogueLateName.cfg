SPECIFICATION Spec
CONSTANTS
  r1 = r1
  r2 = r2
  Requests = {r1, r2}
  Names = {1, 2, 3}
  NoName = 0
  First <- OneService
  Limit = 1
INVARIANTS
  ExistingNameIsConflict
CHECK_DEADLOCK FALSE

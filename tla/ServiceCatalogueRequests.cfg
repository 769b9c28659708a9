SPECIFICATION FairSpec
CONSTANTS
  r1 = r1
  r2 = r2
  Requests = {r1, r2}
  Names = {1, 2, 3}
  NoName = 0
  First <- OneService
  Limit = 1
INVARIANTS
  AnswersAreKept
  LateNamesOnly
  WalkMissesNothing
PROPERTIES
  EveryRequestAnswered
  RegisterSpec
CHECK_DEADLOCK FALSE

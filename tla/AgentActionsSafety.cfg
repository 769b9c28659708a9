SPECIFICATION Spec
CONSTANTS
  o1 = o1  o2 = o2
  b1 = b1  b2 = b2
  t1 = t1
  h1 = h1  h2 = h2  h3 = h3
  Ops = {o1, o2}
  Bodies = {b1, b2}
  Targets = {t1}
  TargetOf <- TwoBodies
  Threads = {h1, h2, h3}
  Nobody = Nobody
  MaxCrashes = 1
  MaxFailures = 0
SYMMETRY Symmetry
INVARIANTS AtMostOnce WrittenAhead VerdictIsTrue OverlapIsKnown AnswersAgree OneLateCommand
PROPERTY LedgerSpec

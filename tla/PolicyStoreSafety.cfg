SPECIFICATION Spec
CONSTANTS
  t1 = t1
  t2 = t2
  b1 = b1
  b2 = b2
  b3 = b3
  Targets = {t1, t2}
  NoTarget = NoTarget
  NoRow = NoRow
  Ops = {o1, o2}
  Bodies = {b1, b2, b3}
  TargetOf <- MCTargetOf
  PolicyOf <- MCPolicyOf
  Legacy <- MCLegacy
  Threads = {h1, h2}
  MaxRequests = 3
  MaxRestarts = 2
SYMMETRY Symmetry
INVARIANTS AuditExplains EnforcedHolds
CHECK_DEADLOCK FALSE

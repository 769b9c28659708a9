SPECIFICATION QuotaSpec
CONSTANTS
  s1 = s1
  s2 = s2
  s3 = s3
  t1 = t1
  t2 = t2
  c1 = c1
  Services = {s1, s2, s3}
  Targets = {t1, t2}
  NoTarget = NoTarget
  Connections = {c1}
  ConnectionOf <- SameConnection
  Instances = {i1, i2}
  Admins = {a1}
  MaxRequests = 3
  MaxConcurrency = 2
  MaxPerConnection = 1
  MaxFailures = 0
INVARIANTS
  Quotas
SYMMETRY Symmetry
CHECK_DEADLOCK FALSE

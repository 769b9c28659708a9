SPECIFICATION LifeSpec
CONSTANTS
  s1 = s1
  s2 = s2
  s3 = s3
  t1 = t1
  t2 = t2
  c1 = c1
  Services = {s1, s2}
  Targets = {t1}
  NoTarget = NoTarget
  Connections = {c1}
  ConnectionOf <- SameConnection
  Instances = {i1}
  Admins = {a1}
  MaxRequests = 2
  MaxConcurrency = 1
  MaxPerConnection = 1
  MaxFailures = 1
INVARIANTS
  IndexNeverFires
  JobMatchesService
  TransitionHasOneRun
PROPERTIES
  JobLifeCycle
  ServiceLifeCycle
  OneOperationId
  RunsEnd
  PendingServed
  SlotSpec

SPECIFICATION MCSpec
CONSTANTS
  p1 = p1
  Containers <- MCContainers
  Projects = {p1}
  Standalone = Standalone
  Ambiguous = Ambiguous
  KindOf <- MCKindOf
  Seen <- MCSeen
  Initially <- MCInitially
  Protectable = {p1, NoTarget}
  Unborn = Unborn
  Gone = Gone
  NoTarget = NoTarget
  NoRow = NoRow
  StoredPolicies = {"managed"}
  Syncs = {s1, s2}
  Nobody = Nobody
  Other = Other
  CacheSize = 1
  PageSize = 1
  MaxPages = 2
  MaxEvents = 1
  MaxTaken = 2
  MaxManual = 1
  MaxRestarts = 1
SYMMETRY Symmetry
INVARIANTS OneSnapshot
PROPERTIES CopySpec Fresh ProtectionStays MembersNotPilotable
CHECK_DEADLOCK FALSE

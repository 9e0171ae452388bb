SPECIFICATION MCSpec
CONSTANTS
  Id = {o1, o2}
  User = {{"objectives-editor"}, {"ops"}}
  Handler = {h1, h2}
  MaxTime = 1
  MaxOps = 4
  Key = {k1, k2}
  Known = {k1}
  Value = {v1, v2}
  MaxId = 3
  MaxRequests = 4
  MaxFaults = 1
  NonceTtl = 1
  AuthWait = 1
  Deadline = 2
  Ping = 1
  MaxRun = 3
  MaxMoment = 3
  MaxTurns = 2
  MaxFailures = 1
  MaxSessions = 2
SYMMETRY Symmetric
INVARIANTS
  LifecycleHolds
  ChatHolds
PROPERTIES
  ListedStays
  ImportsHold
CHECK_DEADLOCK FALSE

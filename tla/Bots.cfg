SPECIFICATION MCSpec
CONSTANTS
  Identity = {a, b}
  Channel = {c1, c2}
  MsgId <- Ids
  Clearer = {k1}
  MaxFaults = 2
  MaxClears = 1
  WatchChannel = {w}
  WatchId <- WatchIds
  Slug = {s1, s2}
  Hash = {x, y}
  Absent = Absent
  Handler = {h1, h2}
  Cap = 1
  MaxCommands = 3
  MaxMoves = 1
  Feature = {platinum, ltd}
  Response <- Responses
  Retry <- Retries
  Interval = 6
  Life = 3
  Lead = 1
  Grace = 2
  MaxFresh = 4
  MaxShown = 2
  MaxTime = 13
  MaxTriggers = 1
  LastTrigger = 1
  Binding = {b1, b2}
  Watched = {b1}
  Reason = {r1, r2}
  BusRoom = 1
  BridgeRoom = 1
  OutRoom = 1
  MaxEvents = 4
  MaxRestarts = 1
SYMMETRY Symmetric
INVARIANTS
  Accounted
  NoDuplicates
  QuietWhenDisabled
  OldSetVanished
  WatchesHold
  AlertsHold
  OutagesHold
PROPERTIES
  KeepsBoard

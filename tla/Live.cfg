SPECIFICATION LiveSpec
CONSTANTS
  Room = 1
  Capacity = 1
  MaxPosts = 2
  Identity = {a, b}
  Channel = {c}
  MsgId <- Ids
  Clearer = {k1}
  MaxFaults = 1
  MaxClears = 1
  Slug = {s1}
  Hash = {x, y}
  Absent = Absent
  Handler = {h1, h2}
  Cap = 1
  MaxCommands = 2
  MaxMoves = 1
  MaxChunks = 3
  VoiceRoom = 1
  Patience = 2
  Client = {m, n}
INVARIANTS
  VoiceHolds
  HubHolds
PROPERTIES
  StreamsEnd
  BindingPublishes
  WatchesCurrent

SPECIFICATION MCSpec
CONSTANTS
  State = {1, 2, 3, 4}
  Handler = {h1, h2}
  MaxPend = 1
  Ttl = 1
  MaxTime = 3
  Session = {s1}
  Callback = {h1, h2}
  Poller = {h1, h2}
  Server = {h1, h2}
  Uploader = {h1, h2}
  Kind = {"", "jump", "dock"}
  Datum = {"a", "b"}
  PendingTtl = 2
  CompleteTtl = 1
  MaxTokens = 2
  MaxFaults = 1
  Life = 1
  MaxJti = 3
  MaxGrant = 3
  MaxLost = 1
  Capacity = 1
  Window = 1
  Batch <- Batches
  Back = 2
  Ahead = 0
  Retain = 1
  PageSize = 2
  MaxCalls = 4
  MaxErrors = 1
  PresenceTtl = 2
  Timeout = 1
  MaxBeats = 5
SYMMETRY Symmetric
INVARIANTS
  PendingCounted
  LoginOnce
  RecordsHold
  UploadsHold
  PresenceHolds
CHECK_DEADLOCK FALSE

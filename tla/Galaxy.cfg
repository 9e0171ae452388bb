SPECIFICATION MCSpec
CONSTANTS
  Interval = 2
  MaxQuery = 2
  MaxTime = 10
  MaxFaults = 2
  Request = {r1, r2}
  Batch <- Calls3
  BatchSize = 2
  Wait = 1
  Attempts = 1
  FleetAttempts = 2
  FleetDelay = 2
  MaxBatchTime = 4
SYMMETRY Symmetric
INVARIANTS
  PowerplayTells
  PageHolds
  BatchesHold
  SearchesHold
  ReadsHold
  PagesTurn
PROPERTIES
  PageStays
CHECK_DEADLOCK FALSE

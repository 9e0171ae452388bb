SPECIFICATION Spec
CONSTANTS
  Use = {u1}
  MaxIter = 2
  MaxTurns = 2
INVARIANTS
  ImageSentOnce
CHECK_DEADLOCK FALSE

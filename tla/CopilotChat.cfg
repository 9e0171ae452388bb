SPECIFICATION MCSpec
CONSTANTS
  Conn = {c1, c2}
  Sess = {1, 2}
  Id = {i1, i2}
  MaxMessages = 3
  MaxFaults = 1
  MaxSends = 3
  Use = {u1, u2}
  MaxIter = 2
  MaxTurns = 2
  SessionId = {1, 2}
  User = {u}
  Request = {r, q}
  Caller <- Callers
  MaxMishaps = 1
SYMMETRY Symmetric
INVARIANTS
  MessageOnce
  ReplyWhereAsked
  ContextKeepsUp
  TurnsHold
  StreamedIsParsed

SPECIFICATION Spec
CONSTANTS
  Fid = {f}
  Jti = {1, 2, 3, 4}
  Handler = {h1, h2}
  Life = 2
  Day = 2
  MaxTime = 3
  MaxFaults = 1
  MaxRequests = 3
SYMMETRY Goroutines
INVARIANTS
  SetsTell
  LockoutHolds

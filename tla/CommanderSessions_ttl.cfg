SPECIFICATION Spec
CONSTANTS
  Fid = {f}
  Jti = {1, 2, 3, 4}
  Handler = {h1, h2}
  Life = 2
  Day = 2
  MaxTime = 3
  MaxFaults = 0
  MaxRequests = 4
PROPERTIES
  RevokedUntilExpiry

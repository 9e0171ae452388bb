SPECIFICATION Spec
CONSTANTS
  Conn = {c1}
  Sess = {1, 2}
  Id = {i1}
  MaxMessages = 3
  MaxFaults = 1
  MaxSends = 1
PROPERTIES
  ListDropsOnlyGone

SPECIFICATION Spec
CONSTANTS
  Identity = {a}
  Channel = {c1, c2}
  MsgId = {1, 2, 3, 4, 5, 6}
  Clearer = {k1}
  MaxFaults = 1
  MaxClears = 0
PROPERTIES
  WipeLeavesNothing

SPECIFICATION Spec
CONSTANTS
  Fid = {f1, f2}
  User = {human, u1, u2, u3}
  Human = {human}
  Group = {copilot, kaine}
  Managed = {copilot}
  HumanGroups = {copilot, kaine}
  Handler = {h1, h2}
  MaxOps = 3
  MaxFaults = 1
SYMMETRY Symmetric
INVARIANTS
  LinksTell
  SessionsMatch
  DecisionsStand
PROPERTIES
  LoginLinks

SPECIFICATION Spec
CONSTANTS
  variant = variant
  r1 = r1
  r2 = r2
  p1 = p1
  p2 = p2
  Runs = {r1, r2}
  Cells <- MCCells
  Shaky <- MCShaky
  Levels = {1, 2}
  Recorded = 1
  MinReliableN = 2
  Commands = {p1, p2}
  MaxInvocations = 3
  MaxCached = 2
  None = None
  Torn = Torn
SYMMETRY Symmetry
INVARIANTS
  Firewall
  RegressionGate

SPECIFICATION Spec
CONSTANTS
  t1 = t1
  t2 = t2
  c1 = c1
  c2 = c2
  Tasks = {t1, t2}
  Cells = {c1, c2}
  TaskOf <- MCTaskOf
  r1 = r1
  r2 = r2
  h1 = h1
  h2 = h2
  Runs = {r1, r2}
  Hashes = {h1, h2}
  Modes <- AllModes
  LockStates = {TRUE}
  Overlap = FALSE
  MaxInv = 3
  MaxActive = 1
  MaxEdits = 1
  NoRow = NoRow
  NoRun = NoRun
  NoHash = NoHash
INVARIANTS
  MarkerSound
SYMMETRY Interchangeable
CHECK_DEADLOCK FALSE

SPECIFICATION Spec
CONSTANTS
  Artifacts <- MCArtifacts
  Runs = {r1, r2}
  MaxProcs = 3
  MaxActive = 1
  Nothing = Nothing
  Torn = Torn
INVARIANTS
  RowsBacked
PROPERTIES
  EntryFrozen
SYMMETRY RunIds
CHECK_DEADLOCK FALSE

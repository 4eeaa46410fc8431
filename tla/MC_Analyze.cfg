CONSTANTS
  base = base
  exp = exp
  Variants = {base, exp}
  Epochs = {1, 2}
  Shaky <- MCShaky
  Collectors = {"file", "jaeger"}
  MinEpochs = {0, 1, 2}
  Limit = 4
  Retries = 2
  MaxExec = 2
  MaxAgain = 1
  NoManifest = NoManifest
SPECIFICATION Spec
INVARIANTS
  FailClosed
  StaleIsExposed
  EpochsAreReal
  NotStoppedEarly

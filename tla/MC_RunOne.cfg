SPECIFICATION Spec
CONSTANTS
  MaxRetries = 2
  OnFailure = "fail"
  RunnerTimesOut = TRUE
  DiskFaults = TRUE
  MaxExecs = 2
  NoExit = NoExit
  NoRow = NoRow
INVARIANTS
  OneTranscript
  StatusTruthful
  NothingLeftBehind
PROPERTIES
  EveryExecutionEnds
CHECK_DEADLOCK FALSE

SPECIFICATION ScheduleSpec
CONSTANTS
  t1 = t1
  t2 = t2
  a1 = a1
  a2 = a2
  b1 = b1
  b2 = b2
  Cells = {a1, a2, b1, b2}
  Work <- MCWork
  Tasks <- MCTasks
  TaskOf <- MCTaskOf
  Strategies = {"full", "per_task", "off"}
  MaxWorkers = 3
INVARIANTS
  InOrder
  IndexStable
  NothingLeftRunning
PROPERTIES
  ImplementsBatch
  BatchEnds
CHECK_DEADLOCK FALSE

CONSTANTS
  Tasks = {"t1", "t2"}
  MaxWorkers = 2
  None = "nobody"
  Bases = {"b1"}
  Scenarios <- ContinuedOnce
SPECIFICATION Spec
INVARIANTS
  StoppedIsReady
CHECK_DEADLOCK FALSE

CONSTANTS
  Tasks = {"t1", "t2"}
  MaxWorkers = 2
  None = "nobody"
  Bases = {"b1"}
  Scenarios <- ContinuedTwice
SPECIFICATION Spec
INVARIANTS
  OneWorkerRuns
CHECK_DEADLOCK FALSE

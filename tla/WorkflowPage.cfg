CONSTANTS
  Tasks = {"t1", "t2"}
  MaxWorkers = 2
  None = "nobody"
  Bases = {"b1"}
  Scenarios <- AllScenarios
SPECIFICATION FairSpec
INVARIANTS
  TypeOK
  AnalyzingHasWorker
  ChainAlive
  RunningIsFollowed
  PauseWithResultCanEnd
PROPERTIES
  InputReturns
CHECK_DEADLOCK FALSE

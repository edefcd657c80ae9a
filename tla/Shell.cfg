CONSTANTS
  None = "nobody"
  Phones = {"p1"}
  Notes = {"n1", "n2"}
  Scenarios <- AllScenarios
SPECIFICATION FairSpec
INVARIANTS
  OneCodeUnderWay
PROPERTIES
  LapsedSessionEnds
  LogoutsEnd
  
CHECK_DEADLOCK FALSE

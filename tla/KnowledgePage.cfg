CONSTANTS
  None = "none"
  Bases = {"b1", "b2"}
  Groups = {"g1", "g2"}
  Items = {"i1", "i2", "i3", "i4"}
  Scenarios <- AllScenarios
SPECIFICATION FairSpec
INVARIANTS
  TypeOK
PROPERTIES
  StatusCatchesUp
  LoadingEnds
CHECK_DEADLOCK FALSE

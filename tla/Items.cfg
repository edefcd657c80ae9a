SPECIFICATION FairSpec
CONSTANTS
  MaxItems = 5
  Files = {f1}
  NoFile = NoFile
  MaxTries = 2
  MaxRoots = 1
  Parents = {"directory"}
  Bounds <- AllBounds
INVARIANTS
  TypeOK
  
  CompletedIsSearchable
  RestoredIsSearchable
  
  
PROPERTIES
  DeletingIrreversible
  
CHECK_DEADLOCK FALSE

CONSTANTS
  None = "nobody"
  Doings = {"catalog", "sections", "video page", "desk", "view", "people", "choose", "deed", "dialog", "provider", "form", "service", "video", "select", "patent", "patentForm", "upload", "search", "lost", "crash", "polls", "archive", "analysis", "analysis opened", "analysis made"}
  Providers = {"p1", "p2"}
  Tasks = {"t1", "t2"}
  Patents = {1, 2, 3, 4}
  Numbers = {"n1"}
  PageSize = 2
  Accounts = {0, 1, 2}
  Self = 1
  Analyses = {1, 2, 3, 4, 5}
  PieceSize = 2
  Scenarios <- AllScenarios
SPECIFICATION FairSpec
INVARIANTS
  QueuesHoldServices
  NumbersAreUnique
  PagerTellsList
  
PROPERTIES
  BatchIsWhole
  TasksEnd
  VideoPageCatchesUp
  WaitingEnds
CHECK_DEADLOCK FALSE

CONSTANTS
  j1 = j1
  j2 = j2
  j3 = j3
  j4 = j4
  baseA = baseA
  baseB = baseB
  key = key
  Jobs = {j1, j2, j3}
  Queues = {baseA}
  Keys = {key}
  NoJob = NoJob
  NoKey = NoKey
  QueueOf <- OneQueue
  KeyOf <- NoKeys
  MaxAttempts = 2
  MaxCrashes = 2
  MaxDbFaults = 1
SPECIFICATION FairSpec
CHECK_DEADLOCK FALSE
INVARIANTS
  NoStalledJob
PROPERTIES
  ImplementsSerialJobs
  EveryJobSettles
  QueueNeverBlocked

CONSTANTS
  j1 = j1
  j2 = j2
  j3 = j3
  j4 = j4
  baseA = baseA
  baseB = baseB
  key = key
  Jobs = {j1, j2, j3}
  Queues = {baseA}
  Keys = {key}
  NoJob = NoJob
  NoKey = NoKey
  QueueOf <- OneQueue
  KeyOf <- RepeatKey3
  MaxAttempts = 2
  MaxCrashes = 1
  MaxDbFaults = 0
SPECIFICATION Spec
CHECK_DEADLOCK FALSE
INVARIANTS NoForgottenJob

CONSTANTS
  j1 = j1
  j2 = j2
  j3 = j3
  j4 = j4
  baseA = baseA
  baseB = baseB
  key = key
  Jobs = {j1, j2, j3, j4}
  Queues = {baseA, baseB}
  Keys = {key}
  NoJob = NoJob
  NoKey = NoKey
  QueueOf <- TwoQueues
  KeyOf <- RepeatKey
  MaxAttempts = 3
  MaxCrashes = 0
  MaxDbFaults = 0
SPECIFICATION Spec
CHECK_DEADLOCK FALSE
INVARIANTS
  TypeOK
  QueueSerialised
  NoForgottenJob
PROPERTIES
  OutcomeIsFinal
  NoOvertaking
SYMMETRY Alike

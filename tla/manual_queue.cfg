SPECIFICATION MCServerSpec
CONSTANTS
  NTask = 2
  Node = {n1}
  Capacity = 1
  Chunk = 2
  MaxEnv = 2
  Request <- FirstTooLarge
  Outcome = {"COMPLETE"}
  Servers = {s1, s2}
  MaxListenTries = 2
  MaxOutages = 1
CHECK_DEADLOCK FALSE
INVARIANTS
  InitMeansMade
  
PROPERTIES
  DeadNodeTasksEnd
  NoStarvation
  ServersComeUp

SPECIFICATION Spec
CONSTANTS
  NTask = 2
  Node = {n1}
  Capacity = 2
  Chunk = 2
  MaxEnv = 0
  Request <- OneCpuEach
  Outcome = {"COMPLETE"}
CHECK_DEADLOCK FALSE
INVARIANTS
  NoLostAssignment

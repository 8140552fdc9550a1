SPECIFICATION MCSpec
CONSTANTS
  NTask = 2
  Node = {n1, n2}
  Capacity = 1
  Chunk = 2
  MaxEnv = 2
  Request <- OneCpuEach
  Outcome = {"COMPLETE"}
SYMMETRY Symmetry
CHECK_DEADLOCK FALSE
INVARIANTS
  OneNodePerTask
  NeverOvercommitted

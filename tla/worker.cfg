SPECIFICATION MCSpec
CONSTANTS
  N = 2
  NFile = 3
  ParallelLimit = 2
  Name = {"a", "ab"}
  Extends <- LookAlikeNames
  MaxDepth = 2
  MaxPaths = 3
  MaxTries = 2
CHECK_DEADLOCK FALSE
INVARIANTS
  EndedIsTerminal
  ExecutorsInOrder
  PlainCompleteIsEarned
  TransfersReport
  MountsCover
  
  
PROPERTIES
  CancelEndsRun

SPECIFICATION MapSpec
CONSTANTS
  Name = {"a", "ab"}
  Extends <- LookAlikeNames
  MaxDepth = 2
  MaxPaths = 2
CHECK_DEADLOCK FALSE
INVARIANT PathsMounted

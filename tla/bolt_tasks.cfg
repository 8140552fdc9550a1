SPECIFICATION RequestsSpec
CONSTANTS
  Task = {t1}
  Writer = {w1, w2, w3}
  LogField = {"start_time", "metadata"}
  ExecField = {"end_time", "exit_code"}
  Entry = {e1, e2}
  new1 = new1
  new2 = new2
  old1 = old1
  old2 = old2
  NewTask <- MCNewTask
  OldTask <- MCOldTask
  MaxClientFaults = 1
  MaxAttempts = 3
  MaxBroken = 1
SYMMETRY Symmetry
INVARIANTS
  QueueMatchesState
  
  AnswersAreTrue
PROPERTIES
  LifecycleSpec
  

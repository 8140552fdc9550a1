SPECIFICATION MCSpec
CONSTANTS
  Task = {t1}
  Canceler = {c1}
  ExecutorBackend = "kubernetes"
  Reconciler = Reconciler
  BackoffLimit = 1
  MaxFaults = 1
  Sharer = {a1, a2}
  MaxAccountFaults = 1
CHECK_DEADLOCK FALSE
INVARIANTS
  
  AccountKept
PROPERTIES
  
  RestartSweeps

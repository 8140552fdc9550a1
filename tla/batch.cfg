SPECIFICATION MCSpec
CONSTANTS
  Task = {t1}
  Canceler = {c1}
  ExecutorBackend = "docker"
  Kind = {"slurm", "htcondor", "pbs", "gridengine", "aws", "gcp", "local"}
  JobNumber = {7, 12}
  MaxFaults = 1
  Operator = {o1, o2}
  MaxSetupFaults = 1
  LastChunk = 2
  RingSize = 1
  EventBuffer = 1
  MaxLogFaults = 1
  MaxPodFaults = 1
  MaxInspect = 2
  MaxDockerFaults = 1
CHECK_DEADLOCK FALSE
INVARIANTS
  VerdictsHold
  SetupIsWhole
  FinalTails
  AnswerIsOwn
  
PROPERTIES
  
  
  LogsNeverBlock
  PodEndNoticed

-------------------------- MODULE MCBatchBackends --------------------------
(* What happens away from the server, for TLC: the jobs of the batch       *)
(* systems and the setup of AWS Batch; and inside of the workers the       *)
(* output of a step and the pod or the container of an executor.  A        *)
(* behaviour is about one part, the others being over.                     *)
EXTENDS BatchBackends, AWSBatchSetup, ExecutorLogs, ExecutorPod,
        ExecutorContainer

VARIABLE part   \* the part at work

(* A task that was canceled before it was submitted to anything.           *)
BatchOver ==
  /\ database = "boltdb" /\ kind = "local"
  /\ state = [t \in Task |-> "CANCELED"]
  /\ submit = [t \in Task |-> "done"]
  /\ cancel = [c \in Canceler |-> Idle]
  /\ endless = {} /\ worker = [t \in Task |-> "none"]
  /\ job = [t \in Task |-> "none"]
  /\ number \in [Task -> {1}]
  /\ stranded = {} /\ recorded = [t \in Task |-> NoId]
  /\ rec = Ticking /\ faults = 0

(* Only HTCondor's jobs are told apart by their numbers.                   *)
NumbersMatter ==
  kind # "htcondor" => \A t \in Task, n \in JobNumber \ {number[u] : u \in Task} : number[t] < n

Part == {"batch", "setup", "logs", "pod", "docker"}

MCInit ==
  /\ part \in Part
  /\ IF part = "batch" THEN Init /\ NumbersMatter ELSE BatchOver
  /\ IF part = "setup" THEN SetupInit ELSE SetupOver
  /\ IF part = "logs" THEN LogInit ELSE LogOver
  /\ IF part = "pod" THEN PodInit ELSE PodOver
  /\ IF part = "docker" THEN DockerInit ELSE DockerOver

MCNext ==
  /\ UNCHANGED part
  /\ part # "batch"  => UNCHANGED vars
  /\ part # "setup"  => UNCHANGED setupVars
  /\ part # "logs"   => UNCHANGED logVars
  /\ part # "pod"    => UNCHANGED podVars
  /\ part # "docker" => UNCHANGED dockerVars
  /\ \/ part = "batch" /\ Next
     \/ part = "setup" /\ SetupNext
     \/ part = "logs" /\ LogNext
     \/ part = "pod" /\ PodNext
     \/ part = "docker" /\ DockerNext

MCSpec ==
  /\ MCInit
  /\ [][MCNext]_<<vars, setupVars, logVars, podVars, dockerVars, part>>
  /\ Fairness /\ LogFairness /\ PodFairness
=============================================================================

------------------------ MODULE MCKubernetesBackend ------------------------
(* The Kubernetes backend for TLC: the jobs and volumes of a task, and the *)
(* service account that the workers of several tasks share.  A behaviour   *)
(* is about one part, the other being over.                                *)
EXTENDS KubernetesBackend, WorkerAccount

VARIABLE part   \* the part at work

(* Commands that end; a missing bucket only where one is needed; and with  *)
(* BoltDB, whose tasks no worker revives, only the tasks that need all.    *)
JobsInit ==
  /\ Init
  /\ endless = {}
  /\ bucket \/ needs # {}
  /\ database = "boltdb" => bucket /\ needs # {}

(* A task that was canceled before it was submitted.                       *)
JobsOver ==
  /\ database = "boltdb" /\ endless = {} /\ bucket = TRUE /\ needs = {}
  /\ state = [t \in Task |-> "CANCELED"]
  /\ submit = [t \in Task |-> "done"]
  /\ cancel = [c \in Canceler |-> Idle]
  /\ worker = [t \in Task |-> "none"] /\ job = [t \in Task |-> "none"]
  /\ attempts = [t \in Task |-> 0]
  /\ made = {} /\ pv = {} /\ exec = {}
  /\ clean = [a \in Cleaner |-> NoClean]
  /\ rec = [pc |-> "tick"] /\ faults = MaxFaults

MCInit ==
  /\ part \in {"jobs", "account"}
  /\ IF part = "jobs" THEN JobsInit ELSE JobsOver
  /\ IF part = "account" THEN AccountInit ELSE AccountOver

MCNext ==
  /\ UNCHANGED part
  /\ \/ part = "jobs" /\ Next /\ UNCHANGED accountVars
     \/ part = "account" /\ AccountNext /\ UNCHANGED vars

(* The reconciler of a backend without tasks has nothing to do.            *)
MCSpec ==
  /\ MCInit
  /\ [][MCNext]_<<vars, accountVars, part>>
  /\ part = "jobs" => Fairness
=============================================================================

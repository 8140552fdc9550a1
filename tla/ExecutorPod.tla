---------------------------- MODULE ExecutorPod ----------------------------
(***************************************************************************)
(* KubernetesCommand.Run and Stop (worker/kubernetes.go): the job of one   *)
(* executor is created, an older one of the same name being deleted first, *)
(* and its pod is watched until a container has ended.  The API server     *)
(* ends watches, forgets old resource versions and loses calls.            *)
(*                                                                         *)
(* A watch with a resource version delivers every later change of a pod    *)
(* that carries the job's label; one without announces the pods there are  *)
(* and then what changes from there on.                                    *)
(***************************************************************************)
EXTENDS Integers, Sequences

CONSTANT MaxPodFaults   \* bound: watches ended or expired, and failed calls

Pod == {"old", "new"}   \* of the job of an earlier worker, and of this one

(* A pod comes, perhaps its init container ends, its container waits for   *)
(* something that never comes, or runs and ends well or badly.             *)
PodStage == {"none", "pending", "inited", "stuck", "running", "ok", "failed", "gone"}
Ended == {"ok", "failed"}

VARIABLES
  storedJob, \* the stored job of the executor's name
  pods,      \* the stage of each pod
  own,       \* history: how the container of the new pod ended
  at,        \* where Run is
  version,   \* waitForPodFinish: resourceVersion is not empty
  unseen,    \* the changes the watch has still to deliver
  timer,     \* the appearance timer is running
  answer,    \* what Run returns
  stopped,   \* Stop was called
  expired,   \* history: a watch was restarted without a version
  podFaults

podVars == <<storedJob, pods, own, at, version, unseen, timer, answer, stopped,
             expired, podFaults>>
kube == <<storedJob, pods, own>>
watching == <<version, timer, expired>>

PodInit ==
  /\ storedJob \in {"none", "old"}
  /\ pods \in [Pod -> PodStage] /\ pods["new"] = "none"
  /\ IF storedJob = "none" THEN pods["old"] = "none" ELSE pods["old"] \in {"none", "running", "ok"}
  /\ own = "none"
  /\ at = "create"
  /\ version = FALSE /\ unseen = <<>> /\ timer = FALSE
  /\ answer = "none" /\ stopped = FALSE /\ expired = FALSE
  /\ podFaults = 0

(* A command that could not even create its job.                           *)
PodOver ==
  /\ storedJob = "none" /\ pods = [p \in Pod |-> "none"]
  /\ own = "none"
  /\ at = "returned"
  /\ version = FALSE /\ unseen = <<>> /\ timer = FALSE
  /\ answer = "system" /\ stopped = TRUE /\ expired = FALSE
  /\ podFaults = 0

PodFault == podFaults < MaxPodFaults /\ podFaults' = podFaults + 1

Returns(a) == at' = "returned" /\ answer' = a
-----------------------------------------------------------------------------
(* Kubernetes, external, for as long as Run looks at it.  A job controller *)
(* makes the pod of a job ...                                              *)
Change(p, s) ==
  /\ at # "returned"
  /\ pods' = [pods EXCEPT ![p] = s]
  /\ own' = IF p = "new" /\ s \in Ended THEN s ELSE own
  /\ unseen' = IF at = "watch" THEN Append(unseen, s) ELSE unseen

PodComes ==
  /\ storedJob = "new" /\ pods["new"] = "none"
  /\ Change("new", "pending")
  /\ UNCHANGED <<storedJob, at, watching, answer, stopped, podFaults>>

(* ... which goes through its stages, ...                                  *)
PodMoves(p) ==
  /\ \E s \in PodStage :
       /\ \/ pods[p] = "pending" /\ s \in {"inited", "stuck", "running"}
          \/ pods[p] = "inited" /\ s = "running"
          \/ pods[p] = "running" /\ s \in Ended
       /\ Change(p, s)
  /\ UNCHANGED <<storedJob, at, watching, answer, stopped, podFaults>>

(* ... and is deleted after its job, or with it when the deletion is in    *)
(* the foreground, or is lost with its machine.                            *)
PodGoes(p) ==
  /\ pods[p] \notin {"none", "gone"}
  /\ IF storedJob # p THEN UNCHANGED podFaults ELSE PodFault
  /\ Change(p, "gone")
  /\ UNCHANGED <<storedJob, at, watching, answer, stopped>>

JobGoes ==
  /\ at # "returned"
  /\ storedJob = "deleting" /\ pods["old"] \in {"none", "gone"}
  /\ storedJob' = "none"
  /\ UNCHANGED <<pods, own, at, watching, unseen, answer, stopped, podFaults>>
-----------------------------------------------------------------------------
(* Run creates the job; one of that name leads to deleteJob, any other     *)
(* error ends the run.                                                     *)
CreateJob ==
  /\ at = "create"
  /\ \/ /\ storedJob = "none"
        /\ storedJob' = "new" /\ at' = "open"
        /\ UNCHANGED <<answer, podFaults>>
     \/ /\ storedJob = "old"
        /\ at' = "delete"
        /\ UNCHANGED <<storedJob, answer, podFaults>>
     \/ PodFault /\ Returns("system") /\ UNCHANGED storedJob
  /\ UNCHANGED <<pods, own, watching, unseen, stopped>>

(* Mutant: the job goes first, its pods later.                             *)
DeleteInBackground ==
  /\ at = "delete"
  /\ storedJob' = IF storedJob = "old" THEN "none" ELSE storedJob
  /\ at' = "recreate"
  /\ UNCHANGED <<pods, own, watching, unseen, answer, stopped, podFaults>>

(* deleteJob deletes it in the foreground; when that fails, as when the    *)
(* watch fails, Run does not look at the error.                            *)
DeleteJob ==
  /\ at = "delete"
  /\ \/ /\ storedJob = "old"
        /\ storedJob' = "deleting" /\ at' = "deleting"
        /\ UNCHANGED podFaults
     \/ /\ IF storedJob = "old" THEN PodFault ELSE UNCHANGED podFaults
        /\ at' = "recreate"
        /\ UNCHANGED storedJob
  /\ UNCHANGED <<pods, own, watching, unseen, answer, stopped>>

(* The watch for the deletion shows it, unless the job was gone before the *)
(* watch began; then, as at any time, the server ends the watch after its  *)
(* timeout, and Run goes on as if it had seen it.                          *)
JobDeleted ==
  /\ at = "deleting"
  /\ IF storedJob = "none" THEN UNCHANGED podFaults ELSE PodFault
  /\ at' = "recreate"
  /\ UNCHANGED <<kube, watching, unseen, answer, stopped>>

RecreateJob ==
  /\ at = "recreate"
  /\ \/ /\ storedJob = "none"
        /\ storedJob' = "new" /\ at' = "open"
        /\ UNCHANGED <<answer, podFaults>>
     \/ /\ IF storedJob = "none" THEN PodFault ELSE UNCHANGED podFaults
        /\ Returns("system")
        /\ UNCHANGED storedJob
  /\ UNCHANGED <<pods, own, watching, unseen, stopped>>
-----------------------------------------------------------------------------
(* newPodWatcher; without a version, the pods there are come first.        *)
Announced(p) == IF pods[p] \in {"none", "gone"} THEN <<>> ELSE <<pods[p]>>

Open(v) ==
  /\ version' = v
  /\ unseen' = IF v THEN unseen ELSE Announced("old") \o Announced("new")

(* waitForPodFinish starts its timer and its watch.                        *)
StartWatch ==
  /\ at = "open"
  /\ \/ at' = "watch" /\ timer' = TRUE /\ Open(FALSE) /\ UNCHANGED <<answer, podFaults>>
     \/ PodFault /\ Returns("system") /\ UNCHANGED <<version, unseen, timer>>
  /\ UNCHANGED <<kube, expired, stopped>>

(* Mutant: a closed watch starts from scratch.                             *)
ReopenFromLatest ==
  /\ at = "watch" /\ PodFault
  /\ Open(FALSE)
  /\ UNCHANGED <<kube, at, timer, answer, expired, stopped>>

(* The server closes the watch, and it is resumed after the last event.    *)
Reopen ==
  /\ at = "watch" /\ PodFault
  /\ \/ Open(version) /\ UNCHANGED <<at, answer>>
     \/ Returns("system") /\ UNCHANGED <<version, unseen>>
  /\ UNCHANGED <<kube, timer, expired, stopped>>

(* The server has forgotten the version: the watch starts from scratch,    *)
(* and what happened in between is not seen.  Any other error ends the     *)
(* run.                                                                    *)
Expire ==
  /\ at = "watch" /\ version /\ PodFault
  /\ \/ Open(FALSE) /\ expired' = TRUE /\ UNCHANGED <<at, answer>>
     \/ Returns("system") /\ UNCHANGED <<version, unseen, expired>>
  /\ UNCHANGED <<kube, timer, stopped>>

(* A pod event: a container that ended, an init container included, and a  *)
(* wait that never ends, end the watch; so does the pod's deletion.        *)
Handle(s) ==
  /\ timer' = FALSE
  /\ CASE s \in Ended \cup {"inited"} -> at' = "logs" /\ answer' = s
       [] s \in {"stuck", "gone"} -> Returns("system")
       [] OTHER -> UNCHANGED <<at, answer>>

PodEvent ==
  /\ at = "watch" /\ unseen # <<>>
  /\ version' = TRUE
  /\ Handle(Head(unseen))
  /\ unseen' = Tail(unseen)
  /\ UNCHANGED <<kube, expired, stopped, podFaults>>

(* Five minutes without any pod.                                           *)
NeverAppears ==
  /\ at = "watch" /\ timer /\ unseen = <<>>
  /\ IF storedJob = "new" /\ pods["new"] = "none" THEN PodFault ELSE UNCHANGED podFaults
  /\ Returns("system")
  /\ UNCHANGED <<kube, watching, unseen, stopped>>

(* The logs are streamed, then the first container of the pod as it was    *)
(* seen decides; one that had not ended by then is a system error.         *)
ReadResult ==
  /\ at = "logs"
  /\ \/ Returns(IF answer \in Ended THEN answer ELSE "system") /\ UNCHANGED podFaults
     \/ PodFault /\ Returns("system")
  /\ UNCHANGED <<kube, watching, unseen, stopped>>

(* Stop deletes the job, in the background; an error is dropped.           *)
Stop ==
  /\ ~stopped /\ at # "returned"
  /\ stopped' = TRUE
  /\ \/ storedJob' = "none" /\ UNCHANGED podFaults
     \/ PodFault /\ UNCHANGED storedJob
  /\ UNCHANGED <<pods, own, at, watching, unseen, answer>>

KubeRun ==
  \/ CreateJob \/ DeleteJob \/ JobDeleted \/ RecreateJob
  \/ StartWatch \/ Reopen \/ Expire \/ PodEvent \/ NeverAppears \/ ReadResult

PodNext ==
  \/ KubeRun \/ Stop
  \/ PodComes \/ JobGoes
  \/ \E p \in Pod : PodMoves(p) \/ PodGoes(p)

(* Run keeps going and time passes for its timer; Kubernetes makes the     *)
(* pods of a job and deletes those of a deleted one.                       *)
PodFairness ==
  /\ WF_podVars(KubeRun)
  /\ WF_podVars(JobGoes \/ \E p \in Pod : storedJob # p /\ PodGoes(p))

PodSpec == PodInit /\ [][PodNext]_podVars /\ PodFairness
-----------------------------------------------------------------------------
(* What Run returns is what happened to the pod of its own job, though an  *)
(* older job of the same name, and its pod, may have been there: success   *)
(* or failure only when that pod's container ended so (deleteJob waits for *)
(* the pods; Stop, whose caller ignores the answer, does not).             *)
AnswerIsOwn ==
  at = "returned" /\ ~stopped /\ answer \in Ended => answer = own

(* Watches that end are resumed where they stopped: when the pod has ended *)
(* or is gone, or the job was deleted, Run returns.  Only a version the    *)
(* server has forgotten breaks this: the new watch may find no pod, with   *)
(* the timer stopped (waitForPodFinish).                                   *)
PodEndNoticed ==
  at = "watch" /\ (storedJob = "none" \/ pods["new"] \in Ended \cup {"gone"}) ~> at = "returned" \/ expired
=============================================================================

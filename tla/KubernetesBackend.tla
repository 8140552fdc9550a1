------------------------- MODULE KubernetesBackend -------------------------
(***************************************************************************)
(* The Kubernetes backend behind the TES service: Submit creates a worker  *)
(* Job and the objects it needs, Cancel and the reconciler delete them,    *)
(* and a restarted server first works off what it finds in the cluster.    *)
(*                                                                         *)
(* External: the job controller, which makes pods, retries failed ones up  *)
(* to the job's backoffLimit, and collects the objects owned by a deleted  *)
(* job (ConfigMap, ServiceAccount, Role, RoleBinding, PVC).  The pod of a  *)
(* deleted job lives on for a moment.  PVs and executor jobs have no owner.*)
(* The reconciler and the clean-up of jobs are enabled, as by default.     *)
(***************************************************************************)
EXTENDS RemoteWorker, Integers

CONSTANTS
  Reconciler,    \* the goroutine that NewBackend starts
  BackoffLimit,  \* how often the job controller retries a failed pod
  MaxFaults      \* bound: restarts, failed calls of the API server or the database

(* The goroutines that clean up are different ones.                        *)
ASSUME CleanerAssumption == Reconciler \notin Task \cup Canceler

VARIABLES
  bucket,    \* the configuration names a bucket and its region
  needs,     \* tasks with inputs, outputs or volumes
  job,       \* the worker job of each task
  attempts,  \* its failed pods
  made,      \* tasks whose owned objects all exist
  pv,        \* tasks with a persistent volume
  exec,      \* tasks with executor jobs
  clean,     \* the cleanResources call each goroutine has in progress
  rec,       \* where the reconciler is, and what it has read
  faults

clusterVars == <<job, attempts, made, pv, exec>>
vars == <<serviceVars, endless, worker, bucket, needs, clusterVars, clean, rec, faults>>
fixed == <<database, endless, bucket, needs>>

(* zero: no pod yet; rejected: none can be created; pending and stuck: a   *)
(* pod that waits, or waits for something that never comes; retrying: no   *)
(* pod, after a failed one, within the limit.                              *)
JobState == {"none", "zero", "rejected", "pending", "stuck", "active", "retrying", "succeeded", "failed"}
Done == {"succeeded", "failed"}

Cleaner == Task \cup Canceler \cup {Reconciler}
NoClean == [pc |-> "no"]
Listed == <<"QUEUED", "INITIALIZING", "RUNNING">>
Fault == faults < MaxFaults /\ faults' = faults + 1

Init ==
  /\ ServiceInit
  /\ WorkerInit
  /\ bucket \in BOOLEAN
  /\ needs \in SUBSET Task
  /\ job = [t \in Task |-> "none"]
  /\ attempts = [t \in Task |-> 0]
  /\ made = {} /\ pv = {} /\ exec = {}
  /\ clean = [a \in Cleaner |-> NoClean]
  /\ rec = [pc |-> "start"]
  /\ faults = 0

-----------------------------------------------------------------------------
(* cleanResources, one step per kind of object; an error is remembered and *)
(* the next kind is tried.                                                 *)

StartClean(a, t) == clean' = [clean EXCEPT ![a] = [pc |-> "job", id |-> t]]
CleanGoto(a, pc) == clean' = [clean EXCEPT ![a].pc = pc]

(* DeleteJob deletes the worker job, and with it what it owns ...          *)
DeleteJob(a) ==
  /\ clean[a].pc = "job"
  /\ LET t == clean[a].id
     IN  \/ /\ job' = [job EXCEPT ![t] = "none"]
            /\ made' = made \ {t}
            /\ CleanGoto(a, "execs")
            /\ UNCHANGED faults
         \/ Fault /\ CleanGoto(a, "pv") /\ UNCHANGED <<job, made>>
  /\ UNCHANGED <<attempts, pv, exec>>

(* ... and, unless that failed, the executor jobs it finds.                *)
DeleteExecutorJobs(a) ==
  /\ clean[a].pc = "execs"
  /\ (exec' = exec \ {clean[a].id} /\ UNCHANGED faults) \/ (Fault /\ UNCHANGED exec)
  /\ CleanGoto(a, "pv")
  /\ UNCHANGED <<job, attempts, made, pv>>

(* DeletePV retries on conflicts with a concurrent clean-up.               *)
DeletePV(a) ==
  /\ clean[a].pc = "pv"
  /\ (pv' = pv \ {clean[a].id} /\ UNCHANGED faults) \/ (Fault /\ UNCHANGED pv)
  /\ clean' = [clean EXCEPT ![a] = NoClean]
  /\ UNCHANGED <<job, attempts, made, exec>>

cleanResources(a) ==
  /\ DeleteJob(a) \/ DeleteExecutorJobs(a) \/ DeletePV(a)
  /\ UNCHANGED <<serviceVars, endless, worker, bucket, needs, rec>>

-----------------------------------------------------------------------------
(* createResources.                                                        *)

(* A creation has failed: Cancel, then the error.                          *)
GiveUp(t) == Fault /\ SubmitGoto(t, "error") /\ StartClean(t, t)

Proceed(t, pc) == SubmitGoto(t, pc) /\ UNCHANGED <<faults, clean>>

(* The worker job comes first; an error may hide a job that exists.        *)
CreateJob(t) ==
  /\ submit[t] = "ready"
  /\ \/ job' = [job EXCEPT ![t] = "zero"] /\ Proceed(t, "owned")
     \/ job' \in {job, [job EXCEPT ![t] = "zero"]} /\ GiveUp(t)
  /\ UNCHANGED <<made, pv>>

(* ConfigMap, ServiceAccount, Role and RoleBinding; without a bucket a     *)
(* task with files then ends in an error that cleans nothing.              *)
CreateOwned(t) ==
  /\ submit[t] = "owned"
  /\ \/ GiveUp(t) /\ UNCHANGED made
     \/ t \notin needs /\ Proceed(t, "done") /\ made' = IF job[t] = "none" THEN made ELSE made \cup {t}
     \/ t \in needs /\ Proceed(t, IF bucket THEN "pv" ELSE "error") /\ UNCHANGED made
  /\ UNCHANGED <<job, pv>>

CreatePV(t) ==
  /\ submit[t] = "pv"
  /\ (pv' = pv \cup {t} /\ Proceed(t, "pvc")) \/ (pv' \in {pv, pv \cup {t}} /\ GiveUp(t))
  /\ UNCHANGED <<job, made>>

(* An object whose owner is gone is collected at once.                     *)
CreatePVC(t) ==
  /\ submit[t] = "pvc"
  /\ \/ Proceed(t, "done") /\ made' = IF job[t] = "none" THEN made ELSE made \cup {t}
     \/ GiveUp(t) /\ UNCHANGED made
  /\ UNCHANGED <<job, pv>>

(* Submit writes SYSTEM_ERROR, ignoring errors, and returns the error.     *)
SubmitError(t) ==
  /\ submit[t] = "error" /\ clean[t] = NoClean
  /\ Write(t, "SYSTEM_ERROR")
  /\ SubmitGoto(t, "failed")
  /\ UNCHANGED <<fixed, cancel, worker, clusterVars, clean, rec, faults>>

Submit(t) ==
  \/ /\ CreateJob(t) \/ CreateOwned(t) \/ CreatePV(t) \/ CreatePVC(t)
     /\ UNCHANGED <<fixed, state, cancel, worker, attempts, exec, rec>>
  \/ SubmitError(t)

backendVars == <<endless, worker, bucket, needs, clusterVars, clean, rec, faults>>

Service(t) == ((\E err \in BOOLEAN : CreateTask(t, err)) \/ SubmitFailed(t)) /\ UNCHANGED backendVars

Cancel(c) ==
  /\ clean[c] = NoClean
  /\ \/ (\E t \in Task : CancelRead(c, t)) /\ UNCHANGED backendVars
     \/ CancelWrite(c) /\ UNCHANGED backendVars
     \/ /\ cancel[c].pc = "dispatch"
        /\ StartClean(c, cancel[c].id)
        /\ CancelGoto(c, Idle)
        /\ UNCHANGED <<fixed, state, submit, worker, clusterVars, rec, faults>>

-----------------------------------------------------------------------------
(* The job controller and the worker in the pod.                           *)

controllerVars == <<serviceVars, endless, bucket, needs, pv, exec, clean, rec, faults>>

(* The controller creates a pod, or cannot; the pod starts when all that   *)
(* it mounts exists, or never.                                             *)
PodComes(t) ==
  /\ \/ job[t] \in {"zero", "retrying"} /\ job' = [job EXCEPT ![t] = "pending"]
     \/ job[t] = "zero" /\ job' = [job EXCEPT ![t] = "rejected"]
     \/ job[t] = "pending" /\ job' = [job EXCEPT ![t] = "stuck"]
  /\ UNCHANGED <<controllerVars, worker, attempts, made>>

(* A deleted job's pod has to be gone before its name is free: one pod at  *)
(* a time.                                                                 *)
PodStarts(t) ==
  /\ job[t] = "pending" /\ t \in made /\ worker[t] = "none"
  /\ job' = [job EXCEPT ![t] = "active"]
  /\ WorkerGoto(t, "starting")
  /\ UNCHANGED <<controllerVars, attempts, made>>

(* The worker has exited, or its pod is lost.                              *)
PodEnds(t) ==
  /\ job[t] = "active"
  /\ WorkerGoto(t, "none")
  /\ IF worker[t] = "exit0"
     THEN job' = [job EXCEPT ![t] = "succeeded"] /\ UNCHANGED attempts
     ELSE /\ job' = [job EXCEPT ![t] = IF attempts[t] < BackoffLimit THEN "retrying" ELSE "failed"]
          /\ attempts' = [attempts EXCEPT ![t] = @ + 1]
  /\ UNCHANGED <<controllerVars, made>>

(* The pod of a deleted job is killed.                                     *)
PodGone(t) ==
  /\ job[t] = "none" /\ worker[t] # "none"
  /\ WorkerGoto(t, "none")
  /\ UNCHANGED <<controllerVars, job, attempts, made>>

(* The worker creates executor jobs when it runs and deletes its own when  *)
(* it finds the task ended (Run, Stop).                                    *)
WorkerStep(t) ==
  /\ WorkerActs(t)
  /\ exec' \in CASE worker'[t] = "run" -> {exec, exec \cup {t}}
                 [] worker[t] = "run" /\ TerminalState(state[t]) -> {exec, exec \ {t}}
                 [] OTHER -> {exec}
  /\ UNCHANGED <<bucket, needs, job, attempts, made, pv, clean, rec, faults>>

-----------------------------------------------------------------------------
(* The reconciler.                                                         *)

Looking == clean[Reconciler] = NoClean
RecClean(t) == StartClean(Reconciler, t)
NoCleanUp == UNCHANGED clean
Ok == UNCHANGED faults
recVars == <<fixed, submit, cancel, worker, clusterVars>>

(* writeSystemError: the database may refuse the event, or the write fails.*)
writeSystemError(t) ==
  \/ /\ state' = IF Accepts(state[t], "SYSTEM_ERROR") THEN [state EXCEPT ![t] = "SYSTEM_ERROR"] ELSE state
     /\ Ok
  \/ Fault /\ UNCHANGED state

(* cleanBacklog lists the worker jobs.  It deletes those with finished     *)
(* pods, and those whose task it cannot read.                              *)
BacklogList ==
  /\ rec.pc = "start"
  /\ LET finished == {t \in Task : job[t] = "succeeded" \/ (job[t] # "none" /\ attempts[t] > 0)}
         active == {t \in Task : job[t] \in {"pending", "stuck", "active"}}
     IN  \/ rec' = [pc |-> "backlog", ids |-> finished] /\ Ok
         \/ \E t \in active : rec' = [pc |-> "backlog", ids |-> finished \cup {t}] /\ Fault
         \/ rec' = [pc |-> "tick"] /\ Fault
  /\ NoCleanUp
  /\ UNCHANGED <<recVars, state>>

(* Then CleanOrphanedResources lists what is left without an owner.        *)
BacklogClean ==
  /\ rec.pc = "backlog"
  /\ \/ \E t \in rec.ids : rec' = [rec EXCEPT !.ids = @ \ {t}] /\ RecClean(t) /\ Ok
     \/ rec.ids = {} /\ rec' = [pc |-> "sweep", ids |-> pv \cup exec] /\ NoCleanUp /\ Ok
     \/ rec.ids = {} /\ rec' \in [pc : {"sweep"}, ids : {pv, exec, {}}] /\ NoCleanUp /\ Fault
  /\ UNCHANGED <<recVars, state>>

(* Mutant: canceled tasks are taken to be clean already.                   *)
SweepSkipsCanceled ==
  /\ rec.pc = "sweep"
  /\ \/ \E t \in rec.ids :
          /\ rec' = [rec EXCEPT !.ids = @ \ {t}]
          /\ IF state[t] \in Terminal \ {"CANCELED"} THEN RecClean(t) ELSE NoCleanUp
     \/ rec.ids = {} /\ rec' = [pc |-> "tick"] /\ NoCleanUp
  /\ Ok
  /\ UNCHANGED <<recVars, state>>

(* isResourceCleanupNeeded: the task has ended, or cannot be read.         *)
Sweep ==
  /\ rec.pc = "sweep"
  /\ \/ \E t \in rec.ids :
          /\ rec' = [rec EXCEPT !.ids = @ \ {t}]
          /\ \/ TerminalState(state[t]) /\ RecClean(t) /\ Ok
             \/ ~TerminalState(state[t]) /\ NoCleanUp /\ Ok
             \/ ~TerminalState(state[t]) /\ RecClean(t) /\ Fault
     \/ rec.ids = {} /\ rec' = [pc |-> "tick"] /\ NoCleanUp /\ Ok
  /\ UNCHANGED <<recVars, state>>

(* reconcileOnce lists the jobs, then the tasks of one state after the     *)
(* other; when a list of tasks fails, the next state is tried.             *)
TickList ==
  /\ rec.pc = "tick"
  /\ rec' = [pc |-> "list", at |-> 1, jobs |-> [t \in {u \in Task : job[u] # "none"} |-> job[t]]]
  /\ NoCleanUp /\ Ok
  /\ UNCHANGED <<recVars, state>>

NextState(n, jobs) ==
  IF n = 3 THEN [pc |-> "orphans", jobs |-> jobs] ELSE [pc |-> "list", at |-> n + 1, jobs |-> jobs]

ListTasks ==
  /\ rec.pc = "list"
  /\ LET ids == {t \in Task : state[t] = Listed[rec.at]}
     IN  \/ /\ rec' = IF ids = {} THEN NextState(rec.at, rec.jobs)
                      ELSE [pc |-> "job", at |-> rec.at, jobs |-> rec.jobs, ids |-> ids]
            /\ Ok
         \/ rec' = NextState(rec.at, rec.jobs) /\ Fault
  /\ NoCleanUp
  /\ UNCHANGED <<recVars, state>>

Without(f, t) == [u \in DOMAIN f \ {t} |-> f[u]]

Matched(t) ==
  LET jobs == Without(rec.jobs, t)
  IN  IF rec.ids = {t} THEN NextState(rec.at, jobs) ELSE [rec EXCEPT !.ids = @ \ {t}, !.jobs = jobs]

Nothing == NoCleanUp /\ Ok /\ UNCHANGED state

(* Mutant: a job with a failed pod has failed.                             *)
FailedPodFails(t) ==
  /\ t \in DOMAIN rec.jobs
  /\ rec.jobs[t] \in {"failed", "retrying"}
  /\ writeSystemError(t) /\ RecClean(t)

(* A job whose retries are used up; its task may have ended by itself.     *)
FailedJob(t) ==
  /\ t \in DOMAIN rec.jobs
  /\ \/ /\ rec.jobs[t] = "failed"
        /\ IF state[t] = "SYSTEM_ERROR" THEN UNCHANGED state /\ Ok ELSE writeSystemError(t)
        /\ RecClean(t)
     \/ rec.jobs[t] = "retrying" /\ Nothing

(* A job in which no pod runs or ever will: the pods and the events are    *)
(* read now, the job's status was read with the list.                      *)
WaitingJob(t) ==
  /\ t \in DOMAIN rec.jobs
  /\ LET hopeless == \/ rec.jobs[t] \in {"pending", "stuck", "active"} /\ job[t] = "stuck"
                     \/ rec.jobs[t] \in {"zero", "rejected"} /\ job[t] = "rejected"
     IN  /\ rec.jobs[t] \notin Done \cup {"retrying"}
         /\ IF hopeless THEN writeSystemError(t) /\ RecClean(t) ELSE Nothing

(* Mutant: a task without a job is left for the next tick.                 *)
NoJobYet(t) == t \notin DOMAIN rec.jobs /\ Nothing

NoJob(t) == t \notin DOMAIN rec.jobs /\ writeSystemError(t) /\ NoCleanUp

(* reconcileJob, or no job for a task that has not ended.                  *)
reconcileJob ==
  /\ rec.pc = "job"
  /\ \E t \in rec.ids :
       /\ rec' = Matched(t)
       /\ \/ FailedJob(t)
          \/ WaitingJob(t)
          \/ t \in DOMAIN rec.jobs /\ rec.jobs[t] = "succeeded" /\ RecClean(t) /\ Ok /\ UNCHANGED state
          \/ t \in DOMAIN rec.jobs /\ NoCleanUp /\ Fault /\ UNCHANGED state
          \/ NoJob(t)
  /\ UNCHANGED recVars

(* The jobs that matched no listed task: deleted once they are done.       *)
Orphans ==
  /\ rec.pc = "orphans"
  /\ \/ \E t \in DOMAIN rec.jobs :
          /\ rec' = [rec EXCEPT !.jobs = Without(@, t)]
          /\ IF rec.jobs[t] \in Done THEN RecClean(t) ELSE NoCleanUp
     \/ DOMAIN rec.jobs = {} /\ rec' = [pc |-> "tick"] /\ NoCleanUp
  /\ Ok
  /\ UNCHANGED <<recVars, state>>

reconcile ==
  /\ Looking
  /\ BacklogList \/ BacklogClean \/ Sweep \/ TickList \/ ListTasks \/ reconcileJob \/ Orphans

(* The server stops and is started again.                                  *)
Restart ==
  /\ Fault
  /\ submit' = [t \in Task |-> IF submit[t] = "none" THEN "none" ELSE "done"]
  /\ cancel' = [c \in Canceler |-> Idle]
  /\ clean' = [a \in Cleaner |-> NoClean]
  /\ rec' = [pc |-> "start"]
  /\ UNCHANGED <<fixed, state, worker, clusterVars>>

Pod(t) == PodStarts(t) \/ PodComes(t) \/ PodEnds(t) \/ PodGone(t)

Next ==
  \/ \E t \in Task : Service(t) \/ Submit(t) \/ Pod(t) \/ WorkerStep(t)
  \/ \E c \in Canceler : Cancel(c)
  \/ \E a \in Cleaner : cleanResources(a)
  \/ reconcile
  \/ Restart

(* The goroutines of the server, the job controller and the workers run    *)
(* on, and a pod ends after its worker.                                    *)
Fairness ==
  /\ \A t \in Task :
       /\ WF_vars(Submit(t) \/ (SubmitFailed(t) /\ UNCHANGED backendVars))
       /\ WF_vars(PodStarts(t) \/ PodComes(t) \/ PodGone(t) \/ (PodEnds(t) /\ worker[t] \in Exits))
       /\ WF_vars(WorkerStep(t))
  /\ \A a \in Cleaner : WF_vars(cleanResources(a))
  /\ WF_vars(reconcile)

Spec == Init /\ [][Next]_vars /\ Fairness
-----------------------------------------------------------------------------
(* The reconcile loop deletes no worker job that has a running pod or that *)
(* Kubernetes still retries, however old its list of jobs and whatever the *)
(* other clean-ups did meanwhile (reconcileJob, reconcileOnce).  The       *)
(* backlog of a restarted server is not so careful.                        *)
SparesWorkers ==
  (clean[Reconciler].pc = "job" /\ rec.pc \in {"tick", "list", "job", "orphans"}) =>
    job[clean[Reconciler].id] \in {"none", "stuck", "rejected"} \cup Done

(* Every created task whose commands are finite ends for good, also when   *)
(* its submission, its cancellation, its pods or the server are lost on    *)
(* the way: a task without a job is reported by the reconciler.            *)
TasksEnd ==
  \A t \in Task : state[t] = "QUEUED" /\ t \notin endless ~> []TerminalState(state[t])

(* After the last fault, a restart clears away the volumes and executor    *)
(* jobs of the tasks that had ended by then (CleanOrphanedResources).      *)
RestartSweeps ==
  \A t \in Task :
    (rec.pc = "start" /\ faults = MaxFaults /\ TerminalState(state[t]) /\ submit[t] = "done" /\ job[t] = "none" /\ worker[t] = "none")
      ~> t \notin pv \cup exec
=============================================================================

--------------------------- MODULE BatchBackends ---------------------------
(***************************************************************************)
(* The compute backends that hand a task to a batch system: the HPC        *)
(* backends (Slurm, HTCondor, PBS, Grid Engine), AWS Batch, Google Batch   *)
(* and the local backend, behind the TES service.                          *)
(*                                                                         *)
(* The batch system is external: a job is queued, may be stuck because no  *)
(* machine fits it, starts, and ends by itself or is killed.  Its job runs *)
(* a Funnel worker, whose states and polling are the ones of the Worker    *)
(* module; with Google Batch it runs the task's commands directly.  The    *)
(* reconciler of a backend reads tasks and jobs at different times.        *)
(***************************************************************************)
EXTENDS RemoteWorker, Integers

CONSTANTS
  Kind,        \* the compute backends a configuration may name
  JobNumber,   \* the numbers a batch system may give to a job
  MaxFaults    \* bound: restarts, failed calls of the reconciler, stuck jobs that come free

(* The ids that a batch system gives to jobs are none of Funnel's.         *)
ASSUME JobAssumption == JobNumber \subseteq Nat /\ JobNumber \cap Task = {}

VARIABLES
  kind,      \* the configured backend
  number,    \* the number of each task's job, once there is one
  job,       \* the batch system's job of each task
  stranded,  \* history: tasks that a lost write, a lost answer or a stopped
             \* server has left without anyone who would end them, and those
             \* whose job id is that of another job
  recorded,  \* the job id in each task's metadata
  rec,       \* where the reconciler is, and what it has read
  faults

vars == <<serviceVars, stranded, kind, number, endless, job, recorded, worker, rec, faults>>
jobVars == <<job, worker>>

HPC == {"slurm", "htcondor", "pbs", "gridengine"}
Waiting == {"queued", "stuck"}
Dead == {"failed", "removed"}
Live == Waiting \cup {"running"}
JobState == {"none", "succeeded"} \cup Live \cup Dead

NoId == -1   \* no job id in the metadata

Fault == faults < MaxFaults /\ faults' = faults + 1

(* What the reconciler does about one task: the event it writes, whether   *)
(* it also removes the job.                                                *)
Verdict == [id : Task, to : State, remove : BOOLEAN]

Listed == <<"QUEUED", "INITIALIZING", "RUNNING">>
Ticking == [pc |-> "list", at |-> 1]

Init ==
  /\ ServiceInit
  /\ stranded = {}
  /\ kind \in Kind
  /\ number \in [Task -> JobNumber]
  /\ \A t, u \in Task : number[t] = number[u] => t = u
  /\ job = [t \in Task |-> "none"]
  /\ recorded = [t \in Task |-> NoId]
  /\ WorkerInit
  /\ rec = Ticking
  /\ faults = 0

-----------------------------------------------------------------------------
(* Submission.                                                             *)

(* The batch system takes the job, or refuses it, or takes it and the      *)
(* answer is lost.                                                         *)
Enqueue(t, created) == job' = IF created THEN [job EXCEPT ![t] = "queued"] ELSE job

ClientCall(t) ==
  \/ Enqueue(t, TRUE) /\ SubmitGoto(t, "submitted") /\ UNCHANGED stranded
  \/ \E created \in BOOLEAN :
       /\ Enqueue(t, created)
       /\ SubmitGoto(t, "error")
       /\ stranded' = IF created THEN stranded \cup {t} ELSE stranded

(* setupTemplatedHPCSubmit cannot write the template of the submission.    *)
TemplateFails(t) == SubmitGoto(t, "failed") /\ UNCHANGED <<job, stranded>>

(* It fails before anything is submitted, or the submit command is run.    *)
HPCSubmit(t) ==
  /\ kind \in HPC
  /\ TemplateFails(t) \/ ClientCall(t)
  /\ UNCHANGED worker

AWSSubmit(t) == kind = "aws" /\ ClientCall(t) /\ UNCHANGED worker

(* detectPathCollisions and validatePath refuse files of the task.         *)
PathsRefused(t) == SubmitGoto(t, "failed") /\ UNCHANGED <<job, stranded>>

(* They do, or CreateJob is called with the task id as the job's name.     *)
GCPSubmit(t) ==
  /\ kind = "gcp"
  /\ PathsRefused(t) \/ ClientCall(t)
  /\ UNCHANGED worker

(* The local backend builds a worker and runs it in the server process.    *)
LocalSubmit(t) ==
  /\ kind = "local"
  /\ \/ SubmitGoto(t, "failed") /\ UNCHANGED jobVars
     \/ /\ SubmitGoto(t, "done")
        /\ job' = [job EXCEPT ![t] = "running"]
        /\ worker' = [worker EXCEPT ![t] = "starting"]
  /\ UNCHANGED stranded

(* Backend.WriteEvent with TASK_CREATED.                                   *)
Submit(t) ==
  /\ submit[t] = "ready"
  /\ HPCSubmit(t) \/ AWSSubmit(t) \/ GCPSubmit(t) \/ LocalSubmit(t)
  /\ UNCHANGED <<database, state, cancel, kind, number, endless, recorded, rec, faults>>

(* The client call has failed: Submit writes SYSTEM_ERROR, ignoring errors,*)
(* and returns the error.                                                  *)
SubmitError(t) ==
  /\ submit[t] = "error"
  /\ \E err \in BOOLEAN : MultiWrite(t, "SYSTEM_ERROR", err)
  /\ SubmitGoto(t, "failed")
  /\ UNCHANGED <<database, cancel, stranded, kind, number, endless, jobVars, recorded, rec, faults>>

(* Mutant: a Submit that returns without recording the job id.             *)
RecordNothing(t) ==
  /\ submit[t] = "submitted"
  /\ SubmitGoto(t, "done")
  /\ UNCHANGED <<database, state, cancel, stranded, kind, number, endless, jobVars, recorded, rec, faults>>

(* The job id in the output of the submit command.  The expression for     *)
(* condor_submit leaves only the last digit of the number to its group.    *)
ExtractID(n) == IF kind = "htcondor" THEN n % 10 ELSE n

(* The id that is found in the output of the job of t is its number.       *)
OwnId(t) == ExtractID(number[t]) = number[t]

WithId(t) == [recorded EXCEPT ![t] = ExtractID(number[t])]

(* The last event of Submit records the job id in the task's metadata; its *)
(* error is the result of Submit, although the job exists.                 *)
RecordJobID(t) ==
  /\ submit[t] = "submitted"
  /\ \/ /\ recorded' = WithId(t)
        /\ SubmitGoto(t, "done")
        /\ stranded' = IF OwnId(t) THEN stranded ELSE stranded \cup {t}
     \/ /\ recorded' \in {recorded, WithId(t)}
        /\ SubmitGoto(t, "failed")
        /\ stranded' = stranded \cup {t}
  /\ UNCHANGED <<database, state, cancel, kind, number, endless, jobVars, rec, faults>>

-----------------------------------------------------------------------------
(* Cancellation: Backend.WriteEvent with a CANCELED state.                 *)

(* The job with number n ends; it need not be a job of Funnel.             *)
Remove(n) ==
  LET hit == {t \in Task : number[t] = n /\ job[t] \in Live}
  IN  /\ job' = [t \in Task |-> IF t \in hit THEN "removed" ELSE job[t]]
      /\ worker' = [t \in Task |-> IF t \in hit THEN "none" ELSE worker[t]]

(* HPCBackend.Cancel looks the job id up, an error when there is none ...  *)
HPCCancel(c) ==
  /\ kind \in HPC
  /\ CancelGoto(c, IF recorded[cancel[c].id] # NoId THEN [cancel[c] EXCEPT !.pc = "command"] ELSE Idle)
  /\ UNCHANGED jobVars

(* ... and runs scancel, condor_rm or qdel, which may fail.                *)
CancelCommand(c) ==
  /\ cancel[c].pc = "command"
  /\ Remove(recorded[cancel[c].id]) \/ UNCHANGED jobVars
  /\ CancelGoto(c, Idle)
  /\ UNCHANGED <<database, state, submit, stranded, kind, number, endless, recorded, rec, faults>>

(* The AWS backend cancels the jobs of QUEUED tasks only.                  *)
AWSCancel(c) ==
  /\ kind = "aws"
  /\ IF state[cancel[c].id] = "QUEUED" /\ recorded[cancel[c].id] # NoId
     THEN Remove(recorded[cancel[c].id])
     ELSE UNCHANGED jobVars
  /\ CancelGoto(c, Idle)

(* Google Batch's Cancel is not implemented, the local backend has none.   *)
NoCancel(c) ==
  /\ kind \in {"gcp", "local"}
  /\ CancelGoto(c, Idle)
  /\ UNCHANGED jobVars

CancelDispatch(c) ==
  /\ cancel[c].pc = "dispatch"
  /\ HPCCancel(c) \/ AWSCancel(c) \/ NoCancel(c)
  /\ UNCHANGED <<database, state, submit, stranded, kind, number, endless, recorded, rec, faults>>

-----------------------------------------------------------------------------
(* The reconcilers.                                                        *)

Fail(t, remove) == [id |-> t, to |-> "SYSTEM_ERROR", remove |-> remove]

(* Mutant: a job that is not running has failed.                           *)
PBSWaitingFails(t, seen) == IF seen \in Dead \cup Waiting THEN {Fail(t, FALSE)} ELSE {}

(* squeue and sacct: a job pending for PartitionConfig fails and is        *)
(* removed, the states CANCELLED, FAILED, TIMEOUT, NODE_FAIL ... fail.     *)
SlurmMapStates(t, seen) ==
  IF seen = "stuck" THEN {Fail(t, TRUE)}
  ELSE IF seen \in Dead THEN {Fail(t, FALSE)} ELSE {}

(* condor_q and condor_history: an idle job that no machine matches fails  *)
(* and is removed; removed, refused and non-zero jobs fail.                *)
HTCondorMapStates(t, seen) ==
  IF seen = "stuck" THEN {Fail(t, TRUE)}
  ELSE IF seen \in Dead THEN {Fail(t, FALSE)} ELSE {}

(* qstat: only a complete job with a non-zero exit status fails.           *)
PBSMapStates(t, seen) == IF seen \in Dead THEN {Fail(t, FALSE)} ELSE {}

(* DescribeJobs: the FAILED jobs.                                          *)
AWSJobStates(t, seen) == IF seen \in Dead THEN {Fail(t, FALSE)} ELSE {}

(* ListJobs: without a worker, the job's state becomes the task's; the     *)
(* task's own state is the one in the list.                                *)
GCPJobStates(t, seen, listed) ==
  LET to == CASE seen = "failed" -> "EXECUTOR_ERROR"
              [] seen = "succeeded" -> "COMPLETE"
              [] seen = "running" -> "RUNNING"
              [] OTHER -> listed
  IN  IF to = listed THEN {} ELSE {[id |-> t, to |-> to, remove |-> FALSE]}

JobStates(t, seen, listed) ==
  CASE kind = "slurm" -> SlurmMapStates(t, seen)
    [] kind = "htcondor" -> HTCondorMapStates(t, seen)
    [] kind = "pbs" -> PBSMapStates(t, seen)
    [] kind = "aws" -> AWSJobStates(t, seen)
    [] kind = "gcp" -> GCPJobStates(t, seen, listed)

HasReconciler == kind \in {"slurm", "htcondor", "pbs", "aws", "gcp"}

recVars == <<database, submit, cancel, stranded, kind, number, endless, recorded>>

NextPage(n) == IF n = 3 THEN Ticking ELSE [pc |-> "list", at |-> n + 1]

(* The key of a task in the reconciler's tmap.                             *)
Key(t) == IF kind = "gcp" THEN t ELSE recorded[t]

(* ListTasks for one state; the HPC and AWS reconcilers keep the tasks     *)
(* with a job id, and of those with the same id one.                       *)
RecList ==
  /\ HasReconciler
  /\ rec.pc = "list"
  /\ LET listed == {t \in Task : state[t] = Listed[rec.at] /\ Key(t) # NoId}
     IN  \E ids \in SUBSET listed :
           /\ \A t \in listed : \E u \in ids : Key(t) = Key(u)
           /\ \A t, u \in ids : Key(t) = Key(u) => t = u
           /\ rec' = IF ids = {} THEN NextPage(rec.at) ELSE [pc |-> "map", at |-> rec.at, ids |-> ids]
  /\ UNCHANGED <<recVars, state, jobVars, faults>>

(* What the batch system says of the job with the recorded number, which   *)
(* may be a job of somebody else.                                          *)
Seen(t) ==
  LET at == {u \in Task : Key(t) \in {u, number[u]}}
  IN  IF at = {} THEN JobState ELSE {job[u] : u \in at}

AfterMap(ids) ==
  \E seen \in [ids -> JobState] :
    LET todo == UNION {JobStates(t, seen[t], Listed[rec.at]) : t \in ids}
    IN  /\ \A t \in ids : seen[t] \in Seen(t)
        /\ rec' = IF todo = {} THEN NextPage(rec.at) ELSE [pc |-> "write", at |-> rec.at, todo |-> todo]

(* The states of the listed tasks' jobs.                                   *)
RecMap ==
  /\ rec.pc = "map"
  /\ AfterMap(rec.ids)
  /\ UNCHANGED <<recVars, state, jobVars, faults>>

(* ListTasks or the batch system's command fails: wait for the next tick.  *)
(* Google's iterator has then given some of the jobs, and the loop goes on.*)
RecFails ==
  /\ HasReconciler
  /\ Fault
  /\ \/ rec.pc = "list" /\ rec' = Ticking
     \/ rec.pc = "map" /\ kind # "gcp" /\ rec' = Ticking
     \/ rec.pc = "map" /\ kind = "gcp" /\ \E seen \in SUBSET rec.ids : AfterMap(seen)
  /\ UNCHANGED <<recVars, state, jobVars>>

AfterWrite(v) ==
  IF v.remove THEN [pc |-> "remove", at |-> rec.at, id |-> v.id, todo |-> rec.todo \ {v}]
  ELSE IF rec.todo = {v} THEN NextPage(rec.at) ELSE [rec EXCEPT !.todo = @ \ {v}]

(* One event of the reconciler; the database may refuse it, the error is   *)
(* ignored.                                                                *)
RecWrite ==
  /\ rec.pc = "write"
  /\ \E v \in rec.todo :
       /\ state' = IF Accepts(state[v.id], v.to) THEN [state EXCEPT ![v.id] = v.to] ELSE state
       /\ rec' = AfterWrite(v)
  /\ UNCHANGED <<recVars, jobVars, faults>>

(* The event is lost.                                                      *)
RecWriteLost ==
  /\ Fault
  /\ rec.pc = "write"
  /\ \E v \in rec.todo : rec' = AfterWrite(v)
  /\ UNCHANGED <<recVars, state, jobVars>>

(* The reconciler removes a job that can never start.                      *)
RecRemove ==
  /\ rec.pc = "remove"
  /\ (Remove(recorded[rec.id]) /\ UNCHANGED faults) \/ (Fault /\ UNCHANGED jobVars)
  /\ rec' = IF rec.todo = {} THEN NextPage(rec.at) ELSE [pc |-> "write", at |-> rec.at, todo |-> rec.todo]
  /\ UNCHANGED <<recVars, state>>

-----------------------------------------------------------------------------
(* The batch system and the worker inside a job.                           *)

envVars == <<database, submit, cancel, kind, number, endless, recorded, rec>>

JobGoto(t, s) == job' = [job EXCEPT ![t] = s]

JobStarts(t) ==
  /\ job[t] = "queued"
  /\ JobGoto(t, "running")
  /\ WorkerGoto(t, IF kind = "gcp" THEN "none" ELSE "starting")
  /\ UNCHANGED <<envVars, faults, state, stranded>>

(* No machine fits the job, until the administrator adds one.              *)
JobStuck(t) ==
  /\ kind \in {"slurm", "htcondor"}
  /\ \/ job[t] = "queued" /\ JobGoto(t, "stuck") /\ UNCHANGED faults
     \/ job[t] = "stuck" /\ JobGoto(t, "queued") /\ Fault
  /\ UNCHANGED <<envVars, state, stranded, worker>>

(* The batch system ends the job: time limit, lost machine, preemption.    *)
JobKilled(t) ==
  /\ kind # "local"
  /\ job[t] = "running"
  /\ JobGoto(t, "failed")
  /\ WorkerGoto(t, "none")
  /\ UNCHANGED <<envVars, faults, state, stranded>>

(* A Google Batch job ends when its commands do.                           *)
CommandsEnd(t) ==
  /\ kind = "gcp"
  /\ job[t] = "running" /\ t \notin endless
  /\ JobGoto(t, "succeeded") \/ JobGoto(t, "failed")
  /\ UNCHANGED <<envVars, faults, state, stranded, worker>>

(* A step of the worker.  When it ends without an end of its task on       *)
(* record, only a reconciler that finds the job failed can still report it.*)
WorkerStep(t) ==
  /\ WorkerActs(t)
  /\ LET lost == /\ worker'[t] \in IF HasReconciler THEN {"exit0"} ELSE Exits
                 /\ ~TerminalState(state'[t])
     IN  stranded' = IF lost THEN stranded \cup {t} ELSE stranded
  /\ UNCHANGED <<kind, number, job, recorded, rec, faults>>

(* The worker process has ended, and so its job.                           *)
WorkerExits(t) ==
  /\ worker[t] \in Exits
  /\ JobGoto(t, IF worker[t] = "exit0" THEN "succeeded" ELSE "failed")
  /\ WorkerGoto(t, "none")
  /\ UNCHANGED <<envVars, faults, state, stranded>>

-----------------------------------------------------------------------------
(* The server stops and is started again; the local backend's workers are  *)
(* part of it.                                                             *)
Restart ==
  /\ Fault
  /\ submit' = [t \in Task |-> IF submit[t] = "none" THEN "none" ELSE "done"]
  /\ LET lost == {t \in Task : submit[t] \notin {"none", "done"} \/ (kind = "local" /\ job[t] = "running")}
     IN  stranded' = stranded \cup lost
  /\ cancel' = [c \in Canceler |-> Idle]
  /\ rec' = Ticking
  /\ IF kind = "local"
     THEN /\ job' = [t \in Task |-> IF job[t] = "running" THEN "failed" ELSE job[t]]
          /\ worker' = [t \in Task |-> "none"]
     ELSE UNCHANGED jobVars
  /\ UNCHANGED <<database, state, kind, number, endless, recorded>>

backendVars == <<kind, number, endless, job, recorded, worker, rec, faults>>

Strand(t, lost) == stranded' = IF lost THEN stranded \cup {t} ELSE stranded

(* The service's part of a submission.                                     *)
Create(t) == \E err \in BOOLEAN : CreateTask(t, err) /\ Strand(t, err) /\ UNCHANGED backendVars
Failed(t) == SubmitFailed(t) /\ Strand(t, ~TerminalState(state'[t])) /\ UNCHANGED backendVars

Cancel(c) ==
  \/ (\E t \in Task : CancelRead(c, t)) /\ UNCHANGED <<stranded, backendVars>>
  \/ CancelWrite(c) /\ UNCHANGED <<stranded, backendVars>>
  \/ CancelDispatch(c)
  \/ CancelCommand(c)

Submission(t) == Submit(t) \/ SubmitError(t) \/ RecordJobID(t)
Batch(t) == JobStarts(t) \/ JobStuck(t) \/ JobKilled(t) \/ CommandsEnd(t)
Reconcile == RecList \/ RecMap \/ RecFails \/ RecWrite \/ RecWriteLost \/ RecRemove

Next ==
  \/ \E t \in Task : Create(t) \/ Failed(t) \/ Submission(t) \/ Batch(t) \/ WorkerStep(t) \/ WorkerExits(t)
  \/ \E c \in Canceler : Cancel(c)
  \/ Reconcile
  \/ Restart

(* The goroutines of the server and the worker processes run on; the batch *)
(* system starts jobs it can start, and finite commands end.               *)
Fairness ==
  /\ \A t \in Task :
       /\ WF_vars(Submission(t) \/ Failed(t))
       /\ WF_vars(JobStarts(t) \/ CommandsEnd(t))
       /\ WF_vars(WorkerStep(t) \/ WorkerExits(t))
  /\ WF_vars(RecList \/ RecMap \/ RecWrite \/ RecRemove)

Spec == Init /\ [][Next]_vars /\ Fairness
-----------------------------------------------------------------------------
(* A verdict that the reconciler has formed from a list of tasks and a     *)
(* list of jobs read at different times (reconcile, Reconcile, MapStates)  *)
(* is still right when it is written: the job has really ended that way,   *)
(* unless it was found unable to start.  Excluded are the HTCondor jobs    *)
(* that extractID takes for another job.                                   *)
VerdictsHold ==
  rec.pc = "write" =>
    \A v \in {w \in rec.todo : kind = "htcondor" => OwnId(w.id)} :
      /\ v.to = "SYSTEM_ERROR" /\ ~v.remove => job[v.id] \in Dead
      /\ v.to = "EXECUTOR_ERROR" => job[v.id] = "failed"
      /\ v.to = "COMPLETE" => job[v.id] = "succeeded"
      /\ v.to = "RUNNING" => job[v.id] \notin {"none"} \cup Waiting

(* With a backend that has a reconciler, or with the local one, every      *)
(* created task whose commands are finite ends for good, whatever happens  *)
(* to its job: the worker reports it, Submit and the service report a      *)
(* failed submission, and the reconciler reports a dead job.  Excluded are *)
(* the tasks that a lost event, a lost answer or a restart has stranded,   *)
(* or whose metadata has the id of another job.                            *)
TasksEnd ==
  \A t \in Task :
    state[t] = "QUEUED" /\ t \notin endless /\ kind # "gridengine" ~>
      [](TerminalState(state[t]) \/ t \in stranded)

(* The work of a canceled task stops, even when the cancel came before the *)
(* submission, found no job id or met a backend whose Cancel does nothing: *)
(* the job is removed or its worker polls (Cancel, pollForCancel).  Google *)
(* Batch jobs have no worker and their Cancel is not implemented.          *)
CanceledWorkStops ==
  \A t \in Task : state[t] = "CANCELED" /\ kind # "gcp" ~> [](job[t] # "running")
=============================================================================

------------------------------- MODULE Worker -------------------------------
(***************************************************************************)
(* DefaultWorker.Run (worker/worker.go): one worker runs one task, while   *)
(* a polling goroutine watches the stored state of the task, users and     *)
(* backends end the task from outside, and the parent context may be       *)
(* canceled (the process or the node is stopping).                         *)
(*                                                                         *)
(* pc is the next statement group of Run; each `if run.ok() { ... }` group *)
(* is one step.  The container of an executor is a process of its own.     *)
(***************************************************************************)
EXTENDS TaskStates, Integers

CONSTANT N   \* number of executors of the task

ASSUME NAssumption == N \in Nat \ {0}

Executor == 1..N

(* What a run depends on and never changes: whether a scratch directory is *)
(* configured, whether executors are Kubernetes jobs, whether the task has *)
(* outputs, the ignore_error flag of each executor, and which validator    *)
(* the store uses.                                                         *)
Conf == [scratch : BOOLEAN, kube : BOOLEAN, outputs : BOOLEAN,
         ignore : [Executor -> BOOLEAN], store : {"bolt", "validated"}]

VARIABLES
  conf,          \* the configuration of this run
  pc,            \* where Run is
  i,             \* index of the executor loop
  syserr,        \* run.syserr # nil
  execerr,       \* run.execerr # nil
  taskCanceled,  \* run.taskCanceled
  ctxDone,       \* the task context is done
  poll,          \* where the goroutine of pollForCancel is
  cmd,           \* the container of executor i
  result,        \* how that container ended
  db,            \* the stored state of the task
  outcome,       \* how each executor's step ended
  dropped,       \* a `return err` of Run discarded a system error
  uploaded,      \* what became of the outputs
  final,         \* the state the deferred function decided to write
  lost           \* ... and that write failed

vars == <<conf, pc, i, syserr, execerr, taskCanceled, ctxDone, poll, cmd, result, db,
          outcome, dropped, uploaded, final, lost>>
ctl == <<conf, taskCanceled, ctxDone, poll>>   \* what no statement of Run writes
hist == <<outcome, dropped, uploaded, final, lost>>

PC == {"read", "init", "map", "download", "running", "scratch", "exec", "step", "stopping",
       "copyout", "upload", "defer", "final", "exit"}

Init ==
  /\ conf \in Conf
  /\ pc = "read"
  /\ i = 1
  /\ syserr = FALSE /\ execerr = FALSE /\ taskCanceled = FALSE
  /\ ctxDone = FALSE
  /\ poll = "off"
  /\ cmd = "none" /\ result = "ok"
  /\ db \in Active
  /\ outcome = [k \in Executor |-> "none"]
  /\ dropped = FALSE
  /\ uploaded = "no"
  /\ final = "UNKNOWN" /\ lost = FALSE

(* What the store holds after an event that asks for state s.              *)
Stored(s) ==
  LET accepts == IF conf.store = "bolt" THEN TransitionAllowed(db, s) ELSE ValidateTransition(db, s)
  IN  IF accepts THEN s ELSE db

(* run.ok(): a done context is recorded as a system error.                 *)
Ok == ~ctxDone /\ ~syserr /\ ~execerr
OkSyserr == syserr \/ ctxDone

-----------------------------------------------------------------------------
(* TaskReader.Task, and the scratch path made absolute: an error returns   *)
(* before anything is reported on the task.                                *)
ReadTask ==
  /\ pc = "read"
  /\ pc' \in {"init", "exit"}
  /\ UNCHANGED <<ctl, i, syserr, execerr, cmd, result, db, hist>>

(* INITIALIZING is written (a refused or failed write is ignored), the     *)
(* deferred functions are set up and the polling goroutine is started.     *)
Initialize ==
  /\ pc = "init"
  /\ db' \in {db, Stored("INITIALIZING")}
  /\ poll' = "ticking"
  /\ pc' = "map"
  /\ UNCHANGED <<conf, taskCanceled, ctxDone, i, syserr, execerr, cmd, result, hist>>

(* MapTask and validate.                                                   *)
MapTask ==
  /\ pc = "map"
  /\ \E err \in BOOLEAN : (err => Ok) /\ syserr' = (OkSyserr \/ err)
  /\ pc' = "download"
  /\ UNCHANGED <<ctl, i, execerr, cmd, result, db, hist>>

(* DownloadInputs; any failed transfer cancels the others and fails it.    *)
DownloadInputs ==
  /\ pc = "download"
  /\ \E err \in BOOLEAN : (err => Ok) /\ syserr' = (OkSyserr \/ err)
  /\ pc' = "running"
  /\ UNCHANGED <<ctl, i, execerr, cmd, result, db, hist>>

(* RUNNING is written; again a refused or failed write is ignored.         *)
ReportRunning ==
  /\ pc = "running"
  /\ syserr' = OkSyserr
  /\ UNCHANGED db \/ (Ok /\ db' = Stored("RUNNING"))
  /\ pc' = "scratch"
  /\ UNCHANGED <<ctl, i, execerr, cmd, result, hist>>

(* Inputs are copied to the scratch directory; an error leaves Run with a  *)
(* plain `return err`, which sets none of the fields of `run`.             *)
CopyInputsToScratch ==
  /\ pc = "scratch"
  /\ syserr' = OkSyserr
  /\ \E err \in BOOLEAN :
       /\ err => Ok /\ conf.scratch
       /\ pc' = IF err THEN "defer" ELSE "exec"
       /\ dropped' = err
  /\ UNCHANGED <<ctl, i, execerr, cmd, result, db, outcome, uploaded, final, lost>>

(* The executor loop: it ends at the first failure that is not ignored.    *)
LoopEnds ==
  /\ pc = "exec"
  /\ i > N \/ ~Ok
  /\ syserr' = IF i > N THEN syserr ELSE OkSyserr
  /\ pc' = "copyout"
  /\ UNCHANGED <<ctl, i, execerr, cmd, result, db, hist>>

(* ValidateResources of a Kubernetes executor fails: a plain `return err`. *)
ResourcesInvalid ==
  /\ pc = "exec" /\ i <= N /\ Ok
  /\ conf.kube
  /\ dropped' = TRUE
  /\ pc' = "defer"
  /\ UNCHANGED <<ctl, i, syserr, execerr, cmd, result, db, outcome, uploaded, final, lost>>

(* openStepLogs fails: the executor is skipped.                            *)
OpenStepLogsFails ==
  /\ pc = "exec" /\ i <= N /\ Ok
  /\ ~conf.kube
  /\ syserr' = TRUE
  /\ i' = i + 1
  /\ UNCHANGED <<ctl, pc, execerr, cmd, result, db, hist>>

(* stepWorker.Run starts the command in a goroutine.                       *)
StartStep ==
  /\ pc = "exec" /\ i <= N /\ Ok
  /\ cmd' = "pulling"
  /\ pc' = "step"
  /\ UNCHANGED <<ctl, i, syserr, execerr, result, db, hist>>

-----------------------------------------------------------------------------
(* The container, external: the image is pulled or the job created, then   *)
(* the container runs until it ends, by itself or because it was stopped.  *)
PullEnds ==
  /\ cmd = "pulling"
  /\ cmd' = "running"
  /\ UNCHANGED <<ctl, pc, i, syserr, execerr, result, db, hist>>

CommandEnds ==
  /\ cmd = "running"
  /\ cmd' = "exited"
  /\ result' \in {"ok", "executor"} \cup (IF conf.kube THEN {"system"} ELSE {})
  /\ UNCHANGED <<ctl, pc, i, syserr, execerr, db, hist>>

CommandKilled ==
  /\ cmd = "killed"
  /\ cmd' = "exited"
  /\ result' = "executor"
  /\ UNCHANGED <<ctl, pc, i, syserr, execerr, db, hist>>

(* Mutant: Stop never reaches the container.                               *)
StopNothing == cmd' = cmd

(* Command.Stop reaches a container that is up; before that there is no    *)
(* container to stop and its error is dropped.                             *)
StopCommand == cmd' = IF cmd = "running" THEN "killed" ELSE cmd

(* Mutant: every executor error is ignored.                                *)
FileErrorIgnored(kind) ==
  /\ syserr' = (syserr \/ kind = "system")
  /\ execerr' = FALSE
  /\ outcome' = [outcome EXCEPT ![i] = kind]
  /\ i' = i + 1
  /\ cmd' = "none"
  /\ pc' = "exec"

(* How Run files the error of executor i: a Kubernetes system error is a   *)
(* system error, any other an executor error, unless it is to be ignored.  *)
FileError(kind) ==
  /\ syserr' = (syserr \/ kind = "system")
  /\ execerr' = (kind \in {"executor", "interrupted"} /\ ~conf.ignore[i])
  /\ outcome' = [outcome EXCEPT ![i] = kind]
  /\ i' = i + 1
  /\ cmd' = "none"
  /\ pc' = "exec"

(* The command's result arrives.                                           *)
StepDone ==
  /\ pc = "step" /\ cmd = "exited"
  /\ FileError(result)
  /\ UNCHANGED <<ctl, result, db, dropped, uploaded, final, lost>>

(* The context is done first: stop the command ...                         *)
StepCanceled ==
  /\ pc = "step" /\ ctxDone
  /\ StopCommand
  /\ pc' = "stopping"
  /\ UNCHANGED <<ctl, i, syserr, execerr, result, db, hist>>

(* ... wait for it, and return the error of the context.                   *)
StepStopped ==
  /\ pc = "stopping" /\ cmd = "exited"
  /\ FileError("interrupted")
  /\ UNCHANGED <<ctl, result, db, dropped, uploaded, final, lost>>

-----------------------------------------------------------------------------
(* fixLinks and resolveWildcards cannot fail the run; CopyOutputsToWorkDir *)
(* leaves with a plain `return err`.                                       *)
CopyOutputsToWorkDir ==
  /\ pc = "copyout"
  /\ \E err \in BOOLEAN :
       /\ err => ~syserr /\ conf.scratch
       /\ pc' = IF err THEN "defer" ELSE "upload"
       /\ dropped' = err
  /\ UNCHANGED <<ctl, i, syserr, execerr, cmd, result, db, outcome, uploaded, final, lost>>

(* Mutant: a failed upload goes unnoticed.                                 *)
UploadUnchecked ==
  /\ pc = "upload"
  /\ \E err \in BOOLEAN :
       /\ err => ~syserr /\ conf.outputs
       /\ uploaded' = IF syserr THEN "no" ELSE IF err THEN "failed" ELSE "ok"
  /\ pc' = "defer"
  /\ UNCHANGED <<ctl, i, syserr, execerr, cmd, result, db, outcome, dropped, final, lost>>

(* UploadOutputs: skipped after a system error, tried after an executor    *)
(* error, when its own failure is only a warning.                          *)
UploadOutputs ==
  /\ pc = "upload"
  /\ \E err \in BOOLEAN :
       /\ err => ~syserr /\ conf.outputs
       /\ uploaded' = IF syserr THEN "no" ELSE IF err THEN "failed" ELSE "ok"
       /\ syserr' = (syserr \/ (err /\ ~execerr))
  /\ pc' = "defer"
  /\ UNCHANGED <<ctl, i, execerr, cmd, result, db, outcome, dropped, final, lost>>

(* A panic anywhere after the deferred functions were set up.              *)
Panic ==
  /\ pc \in {"map", "download", "running", "scratch", "exec", "copyout", "upload"}
  /\ syserr' = TRUE
  /\ pc' = "defer"
  /\ UNCHANGED <<ctl, i, execerr, cmd, result, db, hist>>

(* The deferred function picks the final state ...                         *)
Verdict ==
  CASE taskCanceled -> "CANCELED"
    [] ~taskCanceled /\ syserr -> "SYSTEM_ERROR"
    [] ~taskCanceled /\ ~syserr /\ execerr -> "EXECUTOR_ERROR"
    [] OTHER -> "COMPLETE"

DecideFinal ==
  /\ pc = "defer"
  /\ final' = Verdict
  /\ pc' = "final"
  /\ UNCHANGED <<ctl, i, syserr, execerr, cmd, result, db, outcome, dropped, uploaded, lost>>

(* Mutant: success is only logged.                                         *)
WriteFinalUnlessComplete ==
  /\ pc = "final"
  /\ db' = IF final = "COMPLETE" THEN db ELSE Stored(final)
  /\ pc' = "exit"
  /\ UNCHANGED <<ctl, i, syserr, execerr, cmd, result, hist>>

(* ... and writes it, once: the error of a failed write is only logged.    *)
WriteFinal ==
  /\ pc = "final"
  /\ \/ db' = Stored(final) /\ lost' = FALSE
     \/ db' = db /\ lost' = TRUE
  /\ pc' = "exit"
  /\ UNCHANGED <<ctl, i, syserr, execerr, cmd, result, outcome, dropped, uploaded, final>>

-----------------------------------------------------------------------------
(* pollForCancel: on a tick, a terminal state cancels the context, and     *)
(* then the callback sets taskCanceled.                                    *)
PollTick ==
  /\ poll = "ticking" /\ ~ctxDone
  /\ TerminalState(db)
  /\ ctxDone' = TRUE
  /\ poll' = "callback"
  /\ UNCHANGED <<conf, pc, i, syserr, execerr, taskCanceled, cmd, result, db, hist>>

PollCallback ==
  /\ poll = "callback"
  /\ taskCanceled' = TRUE
  /\ poll' = "ticking"
  /\ UNCHANGED <<conf, pc, i, syserr, execerr, ctxDone, cmd, result, db, hist>>

PollStops ==
  /\ poll = "ticking" /\ ctxDone
  /\ poll' = "stopped"
  /\ UNCHANGED <<conf, pc, i, syserr, execerr, taskCanceled, ctxDone, cmd, result, db, hist>>

(* External: CancelTask, a reconciler or the scheduler ends the task.      *)
EndedOutside ==
  /\ ~TerminalState(db)
  /\ \E s \in {"CANCELED", "SYSTEM_ERROR"} : db' = s
  /\ UNCHANGED <<ctl, pc, i, syserr, execerr, cmd, result, hist>>

(* External: the process or the node that runs the worker is stopping.     *)
ParentDone ==
  /\ pc # "exit" /\ ~ctxDone
  /\ ctxDone' = TRUE
  /\ UNCHANGED <<conf, taskCanceled, poll, pc, i, syserr, execerr, cmd, result, db, hist>>

Run ==
  \/ ReadTask \/ Initialize \/ MapTask \/ DownloadInputs \/ ReportRunning
  \/ CopyInputsToScratch \/ LoopEnds \/ ResourcesInvalid \/ OpenStepLogsFails \/ StartStep
  \/ StepDone \/ StepCanceled \/ StepStopped
  \/ CopyOutputsToWorkDir \/ UploadOutputs \/ Panic \/ DecideFinal \/ WriteFinal

Poll == PollTick \/ PollCallback \/ PollStops

Next == Run \/ Poll \/ PullEnds \/ CommandEnds \/ CommandKilled \/ EndedOutside \/ ParentDone

(* Run and the ticker always get to run, a pull ends and a killed container*)
(* is reaped; how long a command runs is up to the user.                   *)
Fairness == WF_vars(Run) /\ WF_vars(Poll) /\ WF_vars(PullEnds) /\ WF_vars(CommandKilled)

Spec == Init /\ [][Next]_vars /\ Fairness
-----------------------------------------------------------------------------
(* Every variable of the run has a value the worker can give it.           *)
TypeOK ==
  /\ conf \in Conf
  /\ pc \in PC
  /\ i \in 1..(N + 1)
  /\ syserr \in BOOLEAN /\ execerr \in BOOLEAN /\ taskCanceled \in BOOLEAN
  /\ ctxDone \in BOOLEAN /\ dropped \in BOOLEAN
  /\ poll \in {"off", "ticking", "callback", "stopped"}
  /\ cmd \in {"none", "pulling", "running", "killed", "exited"}
  /\ result \in {"ok", "executor", "system"}
  /\ db \in Active \cup Terminal
  /\ outcome \in [Executor -> {"none", "ok", "executor", "system", "interrupted"}]
  /\ uploaded \in {"no", "failed", "ok"}
  /\ final \in Terminal \cup {"UNKNOWN"}
  /\ lost \in BOOLEAN

(* The executor a step works on is one of the task's.                      *)
StepInRange == pc \in {"step", "stopping"} => i <= N

(* Whatever fails, panics or is canceled, and whichever earlier events     *)
(* were refused or lost, a worker that began its task leaves it in a       *)
(* terminal state, unless the write of the last event itself fails (the    *)
(* deferred function of Run).                                              *)
EndedIsTerminal == pc = "exit" /\ final # "UNKNOWN" /\ ~lost => TerminalState(db)

(* An executor is started only when every earlier one ended well or its    *)
(* error was to be ignored, and never after the context was seen done in   *)
(* the middle of a step or a system error (the executor loop of Run).      *)
ExecutorsInOrder ==
  \A k \in Executor : \A j \in Executor :
    j < k /\ (outcome[k] # "none" \/ (k = i /\ cmd # "none")) =>
      \/ outcome[j] = "ok"
      \/ outcome[j] = "executor" /\ conf.ignore[j]

(* An earned COMPLETE: every executor ended well or with an error to be    *)
(* ignored, and the outputs were uploaded.                                 *)
Earned ==
  /\ \A k \in Executor : outcome[k] = "ok" \/ (outcome[k] = "executor" /\ conf.ignore[k])
  /\ uploaded = "ok"

(* Without a scratch directory, Kubernetes executors and ignore_error, a   *)
(* worker reports COMPLETE only when it has earned it, whatever happens to *)
(* its context and to the task meanwhile (Run and its deferred function).  *)
PlainCompleteIsEarned ==
  final = "COMPLETE" /\ ~conf.scratch /\ ~conf.kube /\ (\A k \in Executor : ~conf.ignore[k]) => Earned

(* System errors are never ignored: a run that met one, an interrupted     *)
(* executor or a failed copy included, is not reported as COMPLETE.        *)
SystemErrorsNeverIgnored == final = "COMPLETE" => Earned

(* A task reported as EXECUTOR_ERROR had its outputs uploaded, or at least *)
(* tried, so that the user can see why it failed; only the scratch copy,   *)
(* when it fails, stands in the way (UploadOutputs in Run).                *)
ExecutorErrorUploads == final = "EXECUTOR_ERROR" => uploaded # "no" \/ dropped

(* The worker reports EXECUTOR_ERROR only for an executor whose own error  *)
(* or interruption was not to be ignored, and no executor after it.        *)
ExecutorErrorIsReal ==
  final = "EXECUTOR_ERROR" =>
    \E k \in Executor : /\ outcome[k] \in {"executor", "interrupted"} /\ ~conf.ignore[k]
                        /\ \A j \in Executor : j > k => outcome[j] = "none"

(* A cancellation noticed while the container is up ends the run, however  *)
(* long the command would have run (stepWorker.Run, pollForCancel).        *)
CancelEndsRun == ctxDone /\ pc = "step" /\ cmd = "running" ~> pc = "exit"

(* The goroutines of a step are cleaned up even when the task is canceled: *)
(* a worker whose context is done ends its run.                            *)
CanceledRunEnds == ctxDone ~> pc = "exit"
=============================================================================

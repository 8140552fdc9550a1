---------------------------- MODULE RemoteWorker ----------------------------
(***************************************************************************)
(* A Funnel worker as a compute backend sees it: a process that reads its  *)
(* task, reports INITIALIZING, RUNNING and a last state, polls for the end *)
(* of its task and exits with a code.  Its inside is the Worker module;    *)
(* here every event may be lost and the executors are one step.            *)
(***************************************************************************)
EXTENDS TaskService

CONSTANT ExecutorBackend   \* what runs the executors: "docker" or "kubernetes"

VARIABLES
  endless,   \* tasks whose commands never return by themselves
  worker     \* where the worker of each task is

Exits == {"exit0", "exit1"}

WorkerInit == endless \in SUBSET Task /\ worker = [t \in Task |-> "none"]

WorkerGoto(t, pc) == worker' = [worker EXCEPT ![t] = pc]

(* An event of the worker; it goes on when the write fails.                *)
Write(t, s) == \E err \in BOOLEAN : MultiWrite(t, s, err)

(* A worker that cannot be built, or cannot read its task, exits at once;  *)
(* otherwise it reports INITIALIZING.                                      *)
WorkerStarts(t) ==
  /\ worker[t] = "starting"
  /\ \/ WorkerGoto(t, "exit1") /\ UNCHANGED state
     \/ WorkerGoto(t, "init") /\ Write(t, "INITIALIZING")

WorkerRuns(t) ==
  /\ worker[t] = "init"
  /\ WorkerGoto(t, "run")
  /\ Write(t, "RUNNING")

(* The exit code after the last event.  A failed scratch copy or resource  *)
(* check makes Run return an error, though COMPLETE was reported; and main *)
(* exits with 0 after the error of an executor in Kubernetes, but not of   *)
(* one that was interrupted.                                               *)
ExitCodes(s) ==
  CASE s = "COMPLETE" -> Exits
    [] s = "EXECUTOR_ERROR" /\ ExecutorBackend = "kubernetes" -> Exits
    [] OTHER -> {"exit1"}

Report(t, s) ==
  /\ Write(t, s)
  /\ \E code \in ExitCodes(s) : WorkerGoto(t, code)

WorkerEnds(t) ==
  \/ worker[t] = "init" /\ Report(t, "SYSTEM_ERROR")
  \/ /\ worker[t] = "run" /\ t \notin endless
     /\ \E s \in {"COMPLETE", "EXECUTOR_ERROR", "SYSTEM_ERROR"} : Report(t, s)

(* Mutant: a worker that asks for the state only before it runs anything.  *)
PollBeforeRunning(t) ==
  /\ worker[t] = "init"
  /\ TerminalState(state[t])
  /\ Report(t, "CANCELED")

(* The worker polls and finds the task ended by somebody else.             *)
WorkerPolls(t) ==
  /\ worker[t] \in {"init", "run"}
  /\ TerminalState(state[t])
  /\ Report(t, "CANCELED")

(* One step of the worker of a task.                                       *)
WorkerActs(t) ==
  /\ WorkerStarts(t) \/ WorkerRuns(t) \/ WorkerEnds(t) \/ WorkerPolls(t)
  /\ UNCHANGED <<database, submit, cancel, endless>>
=============================================================================

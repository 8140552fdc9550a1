---------------------------- MODULE TaskService ----------------------------
(***************************************************************************)
(* The TES service (server/tes.go) without the compute backend behind it:  *)
(* CreateTask, which stores a task and leaves its submission to a          *)
(* goroutine, CancelTask, and the event writers both use.  BatchBackends   *)
(* and KubernetesBackend extend this module with the backends' halves of   *)
(* the two calls.                                                          *)
(*                                                                         *)
(* A state event goes through a MultiWriter: first the database, which may *)
(* refuse it, then the other configured writers, and the first error ends  *)
(* the write.  So a write that returns an error may have been stored.      *)
(***************************************************************************)
EXTENDS TaskStates

CONSTANTS
  Task,      \* task ids
  Canceler   \* concurrent callers of CancelTask

VARIABLES
  database,  \* the configured store: "boltdb", or one that calls ValidateTransition
  state,     \* the stored state of each task
  submit,    \* where the goroutine of CreateTask is
  cancel     \* the CancelTask call each caller has in progress

serviceVars == <<database, state, submit, cancel>>

Idle == [pc |-> "idle"]

ServiceInit ==
  /\ database \in {"boltdb", "versioned"}
  /\ state = [t \in Task |-> "UNKNOWN"]
  /\ submit = [t \in Task |-> "none"]
  /\ cancel = [c \in Canceler |-> Idle]

-----------------------------------------------------------------------------
(* The database takes a state event: BoltDB by its own rules, every other  *)
(* store by ValidateTransition.                                            *)
Accepts(from, to) ==
  IF database = "boltdb" THEN from = to \/ TransitionAllowed(from, to)
                         ELSE ValidateTransition(from, to)

(* MultiWriter.WriteEvent with a state event; err is what it returns.      *)
MultiWrite(t, s, err) ==
  \/ err /\ UNCHANGED state
  \/ Accepts(state[t], s) /\ state' = [state EXCEPT ![t] = s]

SubmitGoto(t, pc) == submit' = [submit EXCEPT ![t] = pc]
CancelGoto(c, call) == cancel' = [cancel EXCEPT ![c] = call]

(* CreateTask stores the task and starts the goroutine that submits it; an *)
(* error of a writer behind the database is returned to the caller, who    *)
(* gets no task id, and the stored task is never submitted.                *)
CreateTask(t, err) ==
  /\ state[t] = "UNKNOWN"
  /\ state' = [state EXCEPT ![t] = "QUEUED"]
  /\ SubmitGoto(t, IF err THEN "none" ELSE "ready")
  /\ UNCHANGED <<database, cancel>>

(* The backend has returned an error to the goroutine, which writes        *)
(* SYSTEM_ERROR and ends; an error of that write is only logged.           *)
SubmitFailed(t) ==
  /\ submit[t] = "failed"
  /\ \E err \in BOOLEAN : MultiWrite(t, "SYSTEM_ERROR", err)
  /\ SubmitGoto(t, "done")
  /\ UNCHANGED <<database, cancel>>

(* CancelTask reads the task; one that has ended is left alone.            *)
CancelRead(c, t) ==
  /\ cancel[c] = Idle
  /\ state[t] \in Active
  /\ CancelGoto(c, [pc |-> "checked", id |-> t])
  /\ UNCHANGED <<database, state, submit>>

(* It then writes CANCELED; only when that returns nil is the backend told.*)
CancelWrite(c) ==
  /\ cancel[c].pc = "checked"
  /\ \E err \in BOOLEAN :
       /\ MultiWrite(cancel[c].id, "CANCELED", err)
       /\ CancelGoto(c, IF err THEN Idle ELSE [cancel[c] EXCEPT !.pc = "dispatch"])
  /\ UNCHANGED <<database, submit>>
=============================================================================

----------------------------- MODULE BoltTaskDB -----------------------------
(***************************************************************************)
(* The task half of the BoltDB store (database/boltdb/events.go): its      *)
(* buckets, and WriteEvent called by any number of concurrent writers, the *)
(* gRPC handlers and goroutines of the server.                             *)
(*                                                                         *)
(* bolt.Update and bolt.View run one transaction each; bolt serialises     *)
(* them, so a transaction is one step here, and what WriteEvent does in    *)
(* two transactions is two steps, between which other writers run and the  *)
(* server may crash.  Buckets survive a crash; calls in progress do not.   *)
(***************************************************************************)
EXTENDS TaskStates, Integers, Sequences

CONSTANTS
  Task,       \* task ids
  Writer,     \* concurrent callers of WriteEvent
  LogField,   \* fields of a task log: start and end time, outputs, a metadata key
  ExecField,  \* fields of an executor log: start and end time, exit code
  Entry       \* distinct system log messages

VARIABLES
  taskBucket,    \* TaskBucket: ids with a stored task
  taskState,     \* TaskState: "UNKNOWN" for an id without a record
  tasksQueued,   \* TasksQueued: the ids ReadQueue iterates over
  tasksLog,      \* TasksLog: the fields recorded in each task's log
  executorLogs,  \* ExecutorLogs: the fields recorded for a task's executor
  sysLogs,       \* SysLogs: the system log of each task
  call,          \* the WriteEvent call each writer has in progress
  acked          \* messages whose WriteEvent has returned nil, per task

buckets == <<taskBucket, taskState, tasksQueued, tasksLog, executorLogs, sysLogs>>
vars == <<taskBucket, taskState, tasksQueued, tasksLog, executorLogs, sysLogs, call, acked>>

Idle == [op |-> "idle"]
StateCall == [op : {"state"}, id : Task, target : State]
TaskLogCall == [op : {"tasklog"}, id : Task, field : LogField]
ExecLogCall == [op : {"execlog"}, id : Task, field : ExecField]
SysLogCall == [op : {"syslog"}, id : Task, entry : Entry]
SysLogPut == [op : {"syslog_put"}, id : Task, entry : Entry, logs : Seq(Entry)]

(* A request that WriteEvent accepts for a task it has a record of.        *)
Request == StateCall \cup TaskLogCall \cup ExecLogCall \cup SysLogCall

Call == {Idle} \cup Request \cup SysLogPut

Init ==
  /\ taskBucket = {}
  /\ taskState = [t \in Task |-> "UNKNOWN"]
  /\ tasksQueued = {}
  /\ tasksLog = [t \in Task |-> {}]
  /\ executorLogs = [t \in Task |-> {}]
  /\ sysLogs = [t \in Task |-> <<>>]
  /\ call = [w \in Writer |-> Idle]
  /\ acked = [t \in Task |-> {}]

Return(w) == call' = [call EXCEPT ![w] = Idle]

-----------------------------------------------------------------------------
(* TASK_CREATED: one transaction stores the task, its state and its place  *)
(* in the queue.  The id is fresh: tes.InitTask generates it.              *)
WriteTaskCreated(w, t) ==
  /\ call[w] = Idle
  /\ t \notin taskBucket
  /\ taskBucket' = taskBucket \cup {t}
  /\ taskState' = [taskState EXCEPT ![t] = "QUEUED"]
  /\ tasksQueued' = tasksQueued \cup {t}
  /\ UNCHANGED <<tasksLog, executorLogs, sysLogs, call, acked>>

(* Any other event: a View transaction checks that the task exists.  When  *)
(* it does not, WriteEvent returns an error and nothing changes.  Each     *)
(* system log message is written once.                                     *)
CheckTaskExists(w, req) ==
  /\ call[w] = Idle
  /\ req.id \in taskBucket
  /\ req.op = "syslog" =>
       /\ \A v \in Writer : call[v].op \in {"syslog", "syslog_put"} => call[v].entry # req.entry
       /\ \A t \in Task : req.entry \notin acked[t]
  /\ call' = [call EXCEPT ![w] = req]
  /\ UNCHANGED <<buckets, acked>>

(* Mutant: a store that keeps tasks queued until they end.                 *)
UnqueueWhenTerminal(t, target) == IF TerminalState(target) THEN tasksQueued \ {t} ELSE tasksQueued

(* Every accepted transition takes the task off the queue.                 *)
Unqueue(t, target) == tasksQueued \ {t}

(* TASK_STATE: one Update transaction reads the current state, decides and *)
(* writes both buckets.                                                    *)
TransitionTaskState(w) ==
  /\ call[w].op = "state"
  /\ LET t == call[w].id
         target == call[w].target
     IN  IF target # taskState[t] /\ TransitionAllowed(taskState[t], target)
         THEN /\ taskState' = [taskState EXCEPT ![t] = target]
              /\ tasksQueued' = Unqueue(t, target)
         ELSE UNCHANGED <<taskState, tasksQueued>>
  /\ Return(w)
  /\ UNCHANGED <<taskBucket, tasksLog, executorLogs, sysLogs, acked>>

(* checkOwner finds that the caller may not write to the task: the Update  *)
(* transaction is rolled back.                                             *)
NotPermitted(w) ==
  /\ call[w].op = "state"
  /\ Return(w)
  /\ UNCHANGED <<buckets, acked>>

(* Mutant: a log update that overwrites the stored log instead of merging  *)
(* into it.                                                                *)
OverwriteTaskLog(old, field) == {field}

(* The stored log with one more field set.                                 *)
MergeTaskLog(old, field) == old \cup {field}

(* The system log with the message of this event at its end.               *)
AppendSysLog(logs, entry) == Append(logs, entry)

(* TASK_START_TIME, TASK_END_TIME, TASK_OUTPUTS and TASK_METADATA load the *)
(* stored log and set one part of it, in one transaction.                  *)
UpdateTaskLogs(w) ==
  /\ call[w].op = "tasklog"
  /\ tasksLog' = [tasksLog EXCEPT ![call[w].id] = MergeTaskLog(@, call[w].field)]
  /\ Return(w)
  /\ UNCHANGED <<taskBucket, taskState, tasksQueued, executorLogs, sysLogs, acked>>

(* The executor events merge one field into the stored executor log.       *)
UpdateExecutorLogs(w) ==
  /\ call[w].op = "execlog"
  /\ executorLogs' = [executorLogs EXCEPT ![call[w].id] = @ \cup {call[w].field}]
  /\ Return(w)
  /\ UNCHANGED <<taskBucket, taskState, tasksQueued, tasksLog, sysLogs, acked>>

(* SYSTEM_LOG: a View transaction reads the log, the message is appended   *)
(* to that copy, and a later Update transaction stores the copy.           *)
ReadSysLogs(w) ==
  /\ call[w].op = "syslog"
  /\ call' = [call EXCEPT ![w] = [op |-> "syslog_put", id |-> call[w].id, entry |-> call[w].entry,
                                  logs |-> AppendSysLog(sysLogs[call[w].id], call[w].entry)]]
  /\ UNCHANGED <<buckets, acked>>

PutSysLogs(w) ==
  /\ call[w].op = "syslog_put"
  /\ sysLogs' = [sysLogs EXCEPT ![call[w].id] = call[w].logs]
  /\ acked' = [acked EXCEPT ![call[w].id] = @ \cup {call[w].entry}]
  /\ Return(w)
  /\ UNCHANGED <<taskBucket, taskState, tasksQueued, tasksLog, executorLogs>>

(* The server stops, or is killed, and is started again on the same file.  *)
Crash ==
  /\ \E w \in Writer : call[w] # Idle
  /\ call' = [w \in Writer |-> Idle]
  /\ UNCHANGED <<buckets, acked>>

WriteEvent(w) ==
  \/ \E t \in Task : WriteTaskCreated(w, t)
  \/ \E req \in Request : CheckTaskExists(w, req)
  \/ TransitionTaskState(w)
  \/ NotPermitted(w)
  \/ UpdateTaskLogs(w)
  \/ UpdateExecutorLogs(w)
  \/ ReadSysLogs(w)
  \/ PutSysLogs(w)

Next == Crash \/ \E w \in Writer : WriteEvent(w)

Spec == Init /\ [][Next]_vars
-----------------------------------------------------------------------------
(* The buckets and the calls in progress have the values the store's code  *)
(* and its callers can give them.                                          *)
TypeOK ==
  /\ taskBucket \subseteq Task
  /\ taskState \in [Task -> State]
  /\ tasksQueued \subseteq Task
  /\ tasksLog \in [Task -> SUBSET LogField]
  /\ executorLogs \in [Task -> SUBSET ExecField]
  /\ sysLogs \in [Task -> Seq(Entry)]
  /\ call \in [Writer -> Call]
  /\ acked \in [Task -> SUBSET Entry]

(* The scheduler queue and the task states, two buckets written by two     *)
(* different operations, agree at all times: a task is in TasksQueued      *)
(* exactly while its state is QUEUED, and a stored task always has a state *)
(* (WriteEvent and transitionTaskState write both buckets in one           *)
(* transaction).                                                           *)
QueueMatchesState ==
  \A t \in Task : /\ t \in tasksQueued <=> taskState[t] = "QUEUED"
                  /\ t \in taskBucket <=> taskState[t] \in Active \cup Terminal

(* A call past the existence check is about a task that is still stored:   *)
(* no operation of the store deletes a task.                               *)
CallsOnStoredTasks == \A w \in Writer : call[w] # Idle => call[w].id \in taskBucket

(* transitionTaskState refuses PAUSED, the state nothing implements.       *)
NeverPaused == \A t \in Task : taskState[t] # "PAUSED"

(* The inductive invariant behind QueueMatchesState.                       *)
QueueInv == TypeOK /\ CallsOnStoredTasks /\ QueueMatchesState /\ NeverPaused

(* Whatever the writers do and wherever the server crashes, the state of   *)
(* each task follows the life cycle: it is created once, only moves        *)
(* forward, and never leaves a terminal state (transitionTaskState).       *)
Lifecycle == INSTANCE TaskLifecycle WITH state <- taskState, Retryable <- {}
LifecycleSpec == Lifecycle!Spec

LogsGrow == \A t \in Task : /\ tasksLog[t] \subseteq tasksLog'[t]
                             /\ executorLogs[t] \subseteq executorLogs'[t]

(* Concurrent updates of a task log or an executor log, such as a worker's *)
(* start time and a compute backend's job id, never undo one another       *)
(* (updateTaskLogs and updateExecutorLogs merge inside the transaction).   *)
LogsOnlyGrow == [][LogsGrow]_vars

(* A system log message whose WriteEvent returned no error stays visible   *)
(* in the task's system log (the SYSTEM_LOG case of WriteEvent).           *)
AckedLogsVisible ==
  \A t \in Task : \A e \in acked[t] : \E i \in 1..Len(sysLogs[t]) : sysLogs[t][i] = e
=============================================================================

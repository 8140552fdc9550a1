--------------------------- MODULE DatabaseProofs ---------------------------
(***************************************************************************)
(* Proofs about the database of the server and about reading a task.       *)
(* BoltTaskDB, for any sets of tasks, writers, log fields and messages:    *)
(* the type invariant, the agreement of the queue with the task states,    *)
(* the merge property of the logs, and the refinement of TaskLifecycle.    *)
(* TaskViews, for any number of executors and any lost events: what        *)
(* GetTask of the seven databases answers.                                 *)
(***************************************************************************)
EXTENDS BoltTaskDB, TaskViews, FiniteSetTheorems, TLAPS

(* The provers to try on a step in turn, with the seconds each may take.   *)
USE ZenonT(5), SMTT(20), ZenonT(20), SMTT(40), SMTT(60)

-----------------------------------------------------------------------------
(* The database of the server.                                             *)

(* A writer's call record has the shape its op names.                      *)
LEMMA CallShape ==
  ASSUME TypeOK, NEW w \in Writer
  PROVE  /\ call[w].op = "state" => call[w] \in StateCall
         /\ call[w].op = "tasklog" => call[w] \in TaskLogCall
         /\ call[w].op = "execlog" => call[w] \in ExecLogCall
         /\ call[w].op = "syslog" => call[w] \in SysLogCall
         /\ call[w].op = "syslog_put" => call[w] \in SysLogPut
<1>1. call[w] \in Call
  BY DEF TypeOK
<1>2. CASE call[w] = Idle
  BY <1>2 DEF Idle
<1>3. CASE call[w] \in StateCall
  BY <1>3 DEF StateCall
<1>4. CASE call[w] \in TaskLogCall
  BY <1>4 DEF TaskLogCall
<1>5. CASE call[w] \in ExecLogCall
  BY <1>5 DEF ExecLogCall
<1>6. CASE call[w] \in SysLogCall
  BY <1>6 DEF SysLogCall
<1>7. CASE call[w] \in SysLogPut
  BY <1>7 DEF SysLogPut
<1>. QED
  BY <1>1, <1>2, <1>3, <1>4, <1>5, <1>6, <1>7 DEF Call, Request

(* Returning from WriteEvent keeps the calls well-formed.                  *)
LEMMA ReturnType ==
  ASSUME TypeOK, NEW w \in Writer, Return(w)
  PROVE  call' \in [Writer -> Call]
BY DEF TypeOK, Return, Call

(* Every step of WriteEvent, and a crash, keeps the buckets and the calls  *)
(* in progress well-formed.                                                *)
LEMMA TypeStep ==
  ASSUME TypeOK, [Next]_vars
  PROVE  TypeOK'
<1>1. CASE UNCHANGED vars
  BY <1>1 DEF TypeOK, vars
<1>2. CASE Crash
  BY <1>2 DEF Crash, TypeOK, Call, buckets
<1>3. ASSUME NEW w \in Writer, WriteEvent(w)
      PROVE  TypeOK'
  <2>1. CASE \E t \in Task : WriteTaskCreated(w, t)
    BY <2>1 DEF WriteTaskCreated, TypeOK, State, Active
  <2>2. CASE \E req \in Request : CheckTaskExists(w, req)
    BY <2>2 DEF CheckTaskExists, TypeOK, Call, buckets
  <2>3. CASE TransitionTaskState(w)
    <3>1. call[w].id \in Task /\ call[w].target \in State
      BY <2>3, CallShape DEF TransitionTaskState, StateCall
    <3>2. taskState' \in [Task -> State] /\ tasksQueued' \subseteq Task
      BY <2>3, <3>1 DEF TransitionTaskState, TypeOK, Unqueue
    <3>. QED
      BY <2>3, <3>2, ReturnType DEF TransitionTaskState, TypeOK
  <2>4. CASE NotPermitted(w)
    BY <2>4, ReturnType DEF NotPermitted, TypeOK, buckets
  <2>5. CASE UpdateTaskLogs(w)
    <3>1. call[w].id \in Task /\ call[w].field \in LogField
      BY <2>5, CallShape DEF UpdateTaskLogs, TaskLogCall
    <3>. QED
      BY <2>5, <3>1, ReturnType DEF UpdateTaskLogs, MergeTaskLog, TypeOK
  <2>6. CASE UpdateExecutorLogs(w)
    <3>1. call[w].id \in Task /\ call[w].field \in ExecField
      BY <2>6, CallShape DEF UpdateExecutorLogs, ExecLogCall
    <3>. QED
      BY <2>6, <3>1, ReturnType DEF UpdateExecutorLogs, TypeOK
  <2>7. CASE ReadSysLogs(w)
    <3>1. call[w].id \in Task /\ call[w].entry \in Entry
      BY <2>7, CallShape DEF ReadSysLogs, SysLogCall
    <3>2. AppendSysLog(sysLogs[call[w].id], call[w].entry) \in Seq(Entry)
      BY <3>1 DEF AppendSysLog, TypeOK
    <3>3. call'[w] \in SysLogPut
      BY <2>7, <3>1, <3>2 DEF ReadSysLogs, SysLogPut, TypeOK
    <3>. QED
      BY <2>7, <3>3 DEF ReadSysLogs, TypeOK, Call, buckets
  <2>8. CASE PutSysLogs(w)
    <3>1. call[w].id \in Task /\ call[w].entry \in Entry /\ call[w].logs \in Seq(Entry)
      BY <2>8, CallShape DEF PutSysLogs, SysLogPut
    <3>. QED
      BY <2>8, <3>1, ReturnType DEF PutSysLogs, TypeOK
  <2>. QED
    BY <1>3, <2>1, <2>2, <2>3, <2>4, <2>5, <2>6, <2>7, <2>8 DEF WriteEvent
<1>. QED
  BY <1>1, <1>2, <1>3 DEF Next

(* An empty database is well-formed.                                       *)
LEMMA TypeInit == Init => TypeOK
BY DEF Init, TypeOK, Call, State

(* The buckets of the store and the calls in progress stay well-formed,    *)
(* whatever events WriteEvent is called with.                              *)
THEOREM TypeCorrect == Spec => []TypeOK
BY TypeInit, TypeStep, PTL DEF Spec
-----------------------------------------------------------------------------
(* A state transition that the store accepts starts from an active state   *)
(* and follows the life cycle.                                             *)
LEMMA AcceptedTransition ==
  ASSUME QueueInv, NEW w \in Writer, TransitionTaskState(w),
         taskState' # taskState
  PROVE  \E t \in Task :
           /\ taskState[t] \in Active
           /\ tasksQueued' = tasksQueued \ {t}
           /\ \/ /\ taskState[t] = "QUEUED"
                 /\ taskState' = [taskState EXCEPT ![t] = "INITIALIZING"]
              \/ /\ taskState[t] \in {"QUEUED", "INITIALIZING"}
                 /\ taskState' = [taskState EXCEPT ![t] = "RUNNING"]
              \/ \E s \in Terminal : taskState' = [taskState EXCEPT ![t] = s]
<1>. DEFINE t == call[w].id
            s == call[w].target
<1>1. call[w] \in StateCall /\ call[w] # Idle
  <2>1. TypeOK /\ call[w].op = "state"
    BY DEF TransitionTaskState, QueueInv
  <2>2. call[w] \in StateCall
    BY <2>1, CallShape
  <2>3. QED
    BY <2>1, <2>2 DEF Idle
<1>2. t \in Task /\ s \in State /\ t \in taskBucket
  BY <1>1 DEF StateCall, QueueInv, CallsOnStoredTasks
<1>3. /\ s # taskState[t] /\ TransitionAllowed(taskState[t], s)
      /\ taskState' = [taskState EXCEPT ![t] = s]
      /\ tasksQueued' = tasksQueued \ {t}
  BY DEF TransitionTaskState, Unqueue
<1>4. taskState[t] \in Active
  BY <1>2, <1>3 DEF QueueInv, QueueMatchesState, TransitionAllowed, TerminalState
<1>5. CASE s \in Terminal
  BY <1>2, <1>3, <1>4, <1>5
<1>6. CASE s \notin Terminal
  <2>1. s \in {"RUNNING", "INITIALIZING"} /\ taskState[t] \in {"QUEUED", "INITIALIZING"}
    BY <1>3, <1>4, <1>6 DEF TransitionAllowed, TerminalState, Active
  <2>. QED
    BY <1>2, <1>3, <1>4, <2>1
<1>. QED
  BY <1>5, <1>6

(* In an empty database the queue and the states agree.                    *)
LEMMA QueueInit == Init => QueueInv
BY TypeInit DEF Init, QueueInv, CallsOnStoredTasks, QueueMatchesState, NeverPaused, Active, Terminal

(* Both buckets move together in every step.                               *)
LEMMA QueueStep ==
  ASSUME QueueInv, [Next]_vars
  PROVE  QueueInv'
<1>1. TypeOK'
  BY TypeStep DEF QueueInv
<1>2. CallsOnStoredTasks'
  <2>1. CASE UNCHANGED vars
    BY <2>1 DEF vars, QueueInv, CallsOnStoredTasks
  <2>2. CASE Crash
    BY <2>2 DEF Crash, CallsOnStoredTasks
  <2>3. ASSUME NEW w \in Writer, WriteEvent(w)
        PROVE  CallsOnStoredTasks'
    <3>1. taskBucket \subseteq taskBucket'
      BY <2>3 DEF WriteEvent, WriteTaskCreated, CheckTaskExists, TransitionTaskState, NotPermitted,
                  UpdateTaskLogs, UpdateExecutorLogs, ReadSysLogs, PutSysLogs, buckets
    <3>2. \/ call' = call
          \/ call' = [call EXCEPT ![w] = Idle]
          \/ \E req : req.id \in taskBucket /\ call' = [call EXCEPT ![w] = req]
      <4>1. CASE ReadSysLogs(w)
        <5>1. call[w].id \in taskBucket
          BY <4>1 DEF ReadSysLogs, Idle, QueueInv, CallsOnStoredTasks
        <5>. QED
          BY <4>1, <5>1 DEF ReadSysLogs
      <4>2. CASE ~ReadSysLogs(w)
        BY <2>3, <4>2 DEF WriteEvent, WriteTaskCreated, CheckTaskExists, TransitionTaskState,
                  NotPermitted, UpdateTaskLogs, UpdateExecutorLogs, PutSysLogs, Return
      <4>. QED
        BY <4>1, <4>2
    <3>. QED
      BY <3>1, <3>2 DEF QueueInv, TypeOK, CallsOnStoredTasks
  <2>. QED
    BY <2>1, <2>2, <2>3 DEF Next
<1>3. QueueMatchesState'
  <2>1. CASE UNCHANGED <<taskBucket, taskState, tasksQueued>>
    BY <2>1 DEF QueueInv, QueueMatchesState
  <2>2. ASSUME NEW w \in Writer, NEW t \in Task, WriteTaskCreated(w, t)
        PROVE  QueueMatchesState'
    BY <2>2 DEF WriteTaskCreated, QueueInv, TypeOK, QueueMatchesState, Active, Terminal
  <2>3. ASSUME NEW w \in Writer, TransitionTaskState(w)
        PROVE  QueueMatchesState'
    <3>1. CASE taskState' = taskState
      <4>1. UNCHANGED <<taskBucket, taskState, tasksQueued>>
        BY <2>3, <3>1, CallShape DEF TransitionTaskState, QueueInv, TypeOK, StateCall
      <4>. QED
        BY <2>1, <4>1
    <3>2. CASE taskState' # taskState
      BY <2>3, <3>2, AcceptedTransition
         DEF TransitionTaskState, QueueInv, TypeOK, QueueMatchesState, Active, Terminal
    <3>. QED
      BY <3>1, <3>2
  <2>. QED
    BY <2>1, <2>2, <2>3 DEF Next, vars, Crash, WriteEvent, CheckTaskExists, NotPermitted,
         UpdateTaskLogs, UpdateExecutorLogs, ReadSysLogs, PutSysLogs, buckets
<1>4. NeverPaused'
  <2>1. CASE taskState' = taskState
    BY <2>1 DEF QueueInv, NeverPaused
  <2>2. ASSUME NEW w \in Writer, NEW t \in Task, WriteTaskCreated(w, t)
        PROVE  NeverPaused'
    BY <2>2 DEF WriteTaskCreated, QueueInv, TypeOK, NeverPaused
  <2>3. ASSUME NEW w \in Writer, TransitionTaskState(w), taskState' # taskState
        PROVE  NeverPaused'
    BY <2>3, AcceptedTransition DEF QueueInv, TypeOK, NeverPaused, Terminal
  <2>. QED
    BY <2>1, <2>2, <2>3 DEF Next, vars, Crash, WriteEvent, CheckTaskExists, NotPermitted,
         UpdateTaskLogs, UpdateExecutorLogs, ReadSysLogs, PutSysLogs, buckets
<1>. QED
  BY <1>1, <1>2, <1>3, <1>4 DEF QueueInv

(* The scheduler queue and the task states agree at all times, for any     *)
(* number of concurrent WriteEvent calls and crashes.                      *)
THEOREM QueueCorrect == Spec => []QueueMatchesState
<1>1. QueueInv => QueueMatchesState
  BY DEF QueueInv
<1>. QED
  BY <1>1, QueueInit, QueueStep, PTL DEF Spec
-----------------------------------------------------------------------------
(* Each step of the store is a step of the life cycle or leaves the task   *)
(* states alone.                                                           *)
LEMMA LifecycleStep ==
  ASSUME QueueInv, [Next]_vars
  PROVE  [Lifecycle!Next]_taskState
<1>1. ASSUME NEW w \in Writer, NEW t \in Task, WriteTaskCreated(w, t)
      PROVE  Lifecycle!Next
  <2>1. taskState[t] = "UNKNOWN" \/ taskState[t] = "PAUSED"
    BY <1>1 DEF WriteTaskCreated, QueueInv, TypeOK, QueueMatchesState, State
  <2>2. taskState[t] # "PAUSED"
    BY DEF QueueInv, NeverPaused
  <2>. QED
    BY <1>1, <2>1, <2>2 DEF WriteTaskCreated, Lifecycle!Next, Lifecycle!Create, Lifecycle!Move
<1>2. ASSUME NEW w \in Writer, TransitionTaskState(w), taskState' # taskState
      PROVE  Lifecycle!Next
  BY <1>2, AcceptedTransition
     DEF Lifecycle!Next, Lifecycle!Start, Lifecycle!Execute, Lifecycle!Finish, Lifecycle!Move,
         Lifecycle!Active, Lifecycle!Terminal, Active, Terminal
<1>3. CASE taskState' = taskState
  BY <1>3
<1>. QED
  BY <1>1, <1>2, <1>3 DEF Next, vars, Crash, WriteEvent, CheckTaskExists, NotPermitted,
       UpdateTaskLogs, UpdateExecutorLogs, ReadSysLogs, PutSysLogs, buckets

(* The BoltDB store implements the task life cycle with no way out of a    *)
(* terminal state: transitionTaskState makes every end of a task final.    *)
THEOREM ImplementsLifecycle == Spec => LifecycleSpec
<1>1. Init => Lifecycle!Init
  BY DEF Init, Lifecycle!Init
<1>. QED
  BY <1>1, QueueInit, QueueStep, LifecycleStep, PTL DEF Spec, LifecycleSpec, Lifecycle!Spec

(* Concurrent updates of a task log or an executor log never undo one      *)
(* another: updateTaskLogs and updateExecutorLogs merge in the transaction.*)
THEOREM LogsMerge == Spec => LogsOnlyGrow
<1>1. ASSUME TypeOK, [Next]_vars
      PROVE  [LogsGrow]_vars
  <2>1. CASE UNCHANGED <<tasksLog, executorLogs>>
    BY <2>1 DEF LogsGrow
  <2>2. ASSUME NEW w \in Writer, UpdateTaskLogs(w)
        PROVE  LogsGrow
    BY <1>1, <2>2 DEF UpdateTaskLogs, MergeTaskLog, TypeOK, LogsGrow
  <2>3. ASSUME NEW w \in Writer, UpdateExecutorLogs(w)
        PROVE  LogsGrow
    BY <1>1, <2>3 DEF UpdateExecutorLogs, TypeOK, LogsGrow
  <2>. QED
    BY <1>1, <2>1, <2>2, <2>3 DEF Next, vars, Crash, WriteEvent, WriteTaskCreated, CheckTaskExists,
         TransitionTaskState, NotPermitted, ReadSysLogs, PutSysLogs, buckets
<1>. QED
  BY <1>1, TypeInit, TypeStep, PTL DEF Spec, LogsOnlyGrow

-----------------------------------------------------------------------------
(* What GetTask answers.                                                   *)

(* The events and the requests of TaskViews.                               *)
ViewsSpec == ViewsInit /\ [][ViewsNext]_viewVars

(* The pieces of a task, and those that a store may keep outside its item. *)
Piece == Created \cup Events

(* Those that BoltDB, DynamoDB or Datastore keeps outside the item.        *)
Elsewhere == {<<"content", 0>>, <<"syslog", 0>>} \cup TailEvents

(* The items of a store.                                                   *)
Item == [has : SUBSET Piece, logs : SUBSET Executor]

(* The places where GetTask may be.                                        *)
Steps == {"idle", "get", "parts", "tails", "syslogs", "answered", "panicked", "failed"}

(* The types of the variables.                                             *)
ViewType ==
  /\ vdb \in DocumentStores \cup SplitStores
  /\ sent \subseteq Events
  /\ item \in Item /\ read \in Item /\ versions \subseteq Item
  /\ parts \subseteq Elsewhere
  /\ request \in [view : View, http : BOOLEAN]
  /\ step \in Steps

(* Log entries without a gap, as all stores but BoltDB keep them.          *)
Numbered(logs) == \E n \in Nat : logs = 1..n

(* What holds of every item that a read may return: it is part of the      *)
(* present one, it has what CreateTask stores unless that is kept          *)
(* elsewhere, its entries are numbered (in BoltDB every piece has its      *)
(* entry), and what is kept elsewhere is not in it.                        *)
Kept(v) ==
  /\ v.has \subseteq item.has /\ v.logs \subseteq item.logs
  /\ <<"fields", 0>> \in v.has
  /\ Created \ Unstored \subseteq v.has \cup parts
  /\ vdb # "boltdb" => Numbered(v.logs)
  /\ vdb = "boltdb" => \A p \in v.has : p[2] # 0 => p[2] \in v.logs
  /\ vdb \in SplitStores => \A p \in v.has : p[1] \notin {"tail", "syslog"}
  /\ vdb \in {"dynamodb", "datastore"} => \A p \in v.has : p[1] # "content"

(* Before CreateTask there is nothing to read; after it every item that a  *)
(* read may return is Kept.                                                *)
ItemsInv ==
  /\ versions = {} => step = "idle" /\ item = NoItem /\ sent = {} /\ parts = {}
  /\ versions # {} => item \in versions
  /\ \A v \in versions : Kept(v)
  /\ vdb \in DocumentStores => parts = {}
  /\ vdb = "boltdb" => \A p \in parts : p[1] # "content"

(* In DynamoDB, as long as no event is lost, each executor that has        *)
(* started, and each that has an output tail, has its log entry.           *)
EntriesInv ==
  vdb = "dynamodb" /\ ~lost =>
    /\ \A p \in sent : p[1] = "start" => p[2] \in item.logs
    /\ \A p \in parts : p[2] # 0 => p[2] \in item.logs

(* GetTask has read an item.                                               *)
Reading == step \notin {"idle", "get"}

(* The item that was read is Kept, and what is known at the read has all   *)
(* that CreateTask stored.                                                 *)
ReadInv ==
  Reading =>
    /\ Kept(read)
    /\ read.has \subseteq known /\ known \subseteq read.has \cup parts
    /\ Created \ Unstored \subseteq known

(* While DynamoDB's queries go on, the answer has every piece of the kinds *)
(* queried so far, each in its place, and no piece that is not stored.     *)
QueryInv ==
  /\ step \in {"parts", "tails", "syslogs"} => request.view = "FULL" /\ vdb \in {"dynamodb", "datastore"}
  /\ step \in {"tails", "syslogs"} =>
       /\ vdb = "dynamodb"
       /\ InPlace(read.has) \subseteq shown
       /\ \A q \in shown : q = <<q[1], q[3], q[3]>> /\ <<q[1], q[3]>> \in read.has \cup parts
       /\ \A p \in known : p[1] = "content" \/ (p[1] = "tail" /\ step = "syslogs") =>
            \E q \in shown : q[1] = p[1] /\ q[3] = p[2]

(* The inductive invariant.                                                *)
ViewsInv == ViewType /\ ItemsInv /\ EntriesInv /\ ReadInv /\ QueryInv /\ ViewsExact

(* The item has an entry that BoltDB does not list at its executor's       *)
(* position.                                                               *)
Gaps(r) == vdb = "boltdb" /\ \E e \in r.logs : At(r.logs, e) # e

(* What an answer from an item may lack before the gateway translates it:  *)
(* the first two of the exceptions in Lacks.                               *)
LacksOf(p, r) ==
  \/ vdb \in {"boltdb", "datastore"} /\ p[1] = "tail" /\ p[2] > Cardinality(r.logs)
  \/ vdb = "postgres" /\ p[2] # 0 /\ ~\E e \in p[2] .. LastExecutor : <<"start", e>> \in r.has

(* A right answer before the gateway translates it, from the item r when   *)
(* the pieces k were stored.                                               *)
Right(t, r, k) ==
  /\ \A p \in Promised(request.view, k) : LacksOf(p, r) \/ \E q \in t : q[1] = p[1] /\ q[3] = p[2]
  /\ \A q \in t : <<q[1], q[3]>> \in Promised(request.view, item.has \cup parts) /\ (q[2] = q[3] \/ Gaps(r))
  /\ \A q \in t : q[1] = "syslog" => q = <<"syslog", 0, 0>>
  /\ request.view # "MINIMAL" => <<"fields", 0, 0>> \in t

(* The views that a request may name.                                      *)
LEMMA ViewIs == \A v \in View : v # NoView <=> v \in {"MINIMAL", "BASIC", "FULL"}
BY DEF View, NoView

(* A piece is of the task itself or of one of its executors.               *)
LEMMA PieceIs ==
  ASSUME NEW p \in Piece
  PROVE  /\ p = <<p[1], p[2]>> /\ p[2] \in Nat
         /\ \/ p[1] \in {"fields", "flags", "files", "content", "syslog"} /\ p[2] = 0
            \/ p[1] \in {"start", "exit", "tail"} /\ p[2] \in Executor /\ p[2] # 0
<1>1. CASE p \in Created \cup {<<"syslog", 0>>}
  <2>1. \/ p = <<"fields", 0>> \/ p = <<"flags", 0>> \/ p = <<"files", 0>> \/ p = <<"content", 0>>
        \/ p = <<"syslog", 0>>
    BY <1>1 DEF Created
  <2>2. QED
    BY <2>1
<1>2. CASE p \in LogEvents \cup TailEvents
  <2>1. p = <<p[1], p[2]>> /\ p[1] \in {"start", "exit", "tail"} /\ p[2] \in Executor
    BY <1>2 DEF LogEvents, TailEvents
  <2>2. p[2] \in Nat /\ p[2] # 0
    BY <2>1, ViewsAssumption DEF Executor
  <2>3. QED
    BY <2>1, <2>2
<1>3. QED
  BY <1>1, <1>2 DEF Piece, Events

(* An item has finitely many log entries.                                  *)
LEMMA LogsFinite == \A v \in Item : Cardinality(v.logs) \in Nat /\ v.logs \subseteq Nat \ {0}
<1>1. IsFiniteSet(Executor) /\ Executor \subseteq Nat \ {0}
  BY ViewsAssumption, FS_Interval DEF Executor
<1>2. ASSUME NEW v \in Item PROVE Cardinality(v.logs) \in Nat /\ v.logs \subseteq Nat \ {0}
  <2>1. v.logs \subseteq Executor
    BY DEF Item
  <2>2. IsFiniteSet(v.logs)
    BY <1>1, <2>1, FS_Subset
  <2>3. QED
    BY <1>1, <2>1, <2>2, FS_CardinalityType
<1>3. QED
  BY <1>2

(* InPlace shows each piece, and nothing else.                             *)
LEMMA InPlaceIs ==
  ASSUME NEW S
  PROVE  /\ \A p \in S : <<p[1], p[2], p[2]>> \in InPlace(S)
         /\ \A q \in InPlace(S) : \E p \in S : q = <<p[1], p[2], p[2]>>
BY DEF InPlace

(* InPlace shows each piece under its kind and its executor.               *)
LEMMA InPlaceShows ==
  ASSUME NEW S
  PROVE  \A p \in S : \E q \in InPlace(S) : q[1] = p[1] /\ q[3] = p[2]
<1>1. ASSUME NEW p \in S PROVE <<p[1], p[2], p[2]>> \in InPlace(S)
  BY DEF InPlace
<1>2. QED
  BY <1>1

(* What InPlace shows stands in the entry of its executor.                 *)
LEMMA InPlaceOnly ==
  ASSUME NEW S \in SUBSET Piece, NEW q \in InPlace(S)
  PROVE  /\ <<q[1], q[3]>> \in S /\ q = <<q[1], q[3], q[3]>> /\ q[2] = q[3]
         /\ q[1] = "syslog" => q = <<"syslog", 0, 0>>
<1>1. PICK p \in S : q = <<p[1], p[2], p[2]>>
  BY DEF InPlace
<1>2. p = <<p[1], p[2]>> /\ q[1] = p[1] /\ q[2] = p[2] /\ q[3] = p[2] /\ (p[1] = "syslog" => p[2] = 0)
  BY <1>1, PieceIs
<1>3. QED
  BY <1>1, <1>2

(* TranslateTask leaves out the contents and the files, and only of a task *)
(* without system logs.                                                    *)
LEMMA TranslatedIs ==
  ASSUME NEW t, NEW s, s = (IF request.http THEN TranslateTask(t) ELSE t),
         <<"fields", 0, 0>> \in t,
         \A q \in t : q[1] = "syslog" => q = <<"syslog", 0, 0>>
  PROVE  /\ s \subseteq t
         /\ \A q \in t : q \in s \/ (request.http /\ q[1] \in {"content", "files"} /\ <<"syslog", 0, 0>> \notin s)
<1>1. CASE ~request.http \/ <<"syslog", 0, 0>> \in t
  <2>1. s = t
    BY <1>1 DEF TranslateTask, DetectView
  <2>2. QED
    BY <2>1
<1>2. CASE request.http /\ <<"syslog", 0, 0>> \notin t
  <2>1. s = {p \in t : p[1] \notin {"content", "files", "syslog"}}
    BY <1>2 DEF TranslateTask, DetectView
  <2>2. QED
    BY <1>2, <2>1
<1>3. QED
  BY <1>1, <1>2

(* What an answer may lack is what it may lack before the translation, and *)
(* what the translation leaves out.                                        *)
LEMMA LacksIs ==
  ASSUME NEW p, UNCHANGED <<vdb, request>>
  PROVE  Lacks(p)' <=> \/ LacksOf(p, read')
                       \/ request.http /\ p[1] \in {"content", "files"} /\ <<"syslog", 0, 0>> \notin shown'
BY DEF Lacks, LacksOf

(* The translation of a right answer is what ViewsExact asks for.          *)
LEMMA TranslatedRight ==
  ASSUME NEW t, Right(t, read', known'), UNCHANGED <<vdb, request>>,
         shown' = (IF request.http THEN TranslateTask(t) ELSE t)
  PROVE  /\ \A p \in Promised(request.view, known') :
              ~Lacks(p)' => \E q \in shown' : q[1] = p[1] /\ q[3] = p[2]
         /\ \A q \in shown' :
              <<q[1], q[3]>> \in Promised(request.view, item.has \cup parts) /\ (q[2] = q[3] \/ Gaps(read'))
<1>1. CASE request.view = "MINIMAL"
  <2>1. \A S : Promised(request.view, S) = {}
    BY <1>1 DEF Promised
  <2>2. t = {}
    BY <2>1 DEF Right
  <2>3. shown' = {}
    BY <2>2 DEF TranslateTask, DetectView
  <2>4. QED
    BY <2>1, <2>3
<1>2. CASE request.view # "MINIMAL"
  <2>1. /\ shown' \subseteq t
        /\ \A q \in t : q \in shown' \/ (request.http /\ q[1] \in {"content", "files"} /\ <<"syslog", 0, 0>> \notin shown')
    <3>1. <<"fields", 0, 0>> \in t /\ \A q \in t : q[1] = "syslog" => q = <<"syslog", 0, 0>>
      BY <1>2 DEF Right
    <3>2. QED
      BY <3>1, TranslatedIs
  <2>2. ASSUME NEW p \in Promised(request.view, known'), ~Lacks(p)'
        PROVE  \E q \in shown' : q[1] = p[1] /\ q[3] = p[2]
    <3>1. PICK q \in t : q[1] = p[1] /\ q[3] = p[2]
      BY <2>2, LacksIs DEF Right
    <3>2. q \in shown'
      BY <2>1, <2>2, <3>1, LacksIs
    <3>3. QED
      BY <3>1, <3>2
  <2>3. QED
    BY <2>1, <2>2 DEF Right
<1>3. QED
  BY <1>1, <1>2

(* An answer is right that shows, of pieces in their places, those of the  *)
(* view.                                                                   *)
LEMMA PlacedRight ==
  ASSUME request.view \in {"MINIMAL", "BASIC", "FULL"}, NEW S, S \subseteq item.has \cup parts, S \subseteq Piece,
         <<"fields", 0>> \in S, NEW r, NEW k,
         \A p \in k : p \in S \/ LacksOf(p, r) \/ (request.view = "BASIC" /\ Split(p[1])),
         NEW t, t = {q \in InPlace(S) : request.view # "MINIMAL" /\ (request.view = "BASIC" => ~Split(q[1]))}
  PROVE  Right(t, r, k)
<1>1. ASSUME NEW p \in Promised(request.view, k), ~LacksOf(p, r)
      PROVE  \E q \in t : q[1] = p[1] /\ q[3] = p[2]
  <2>1. request.view # "MINIMAL" /\ p \in k /\ (request.view = "BASIC" => ~Split(p[1]))
    BY <1>1 DEF Promised
  <2>2. p \in S
    BY <1>1, <2>1
  <2>3. PICK q \in InPlace(S) : q[1] = p[1] /\ q[3] = p[2]
    BY <2>2, InPlaceShows
  <2>4. q \in t
    BY <2>1, <2>3
  <2>5. QED
    BY <2>3, <2>4
<1>2. ASSUME NEW q \in t
      PROVE  /\ <<q[1], q[3]>> \in Promised(request.view, item.has \cup parts) /\ q[2] = q[3]
             /\ q[1] = "syslog" => q = <<"syslog", 0, 0>>
  <2>1. q \in InPlace(S) /\ request.view # "MINIMAL" /\ (request.view = "BASIC" => ~Split(q[1]))
    OBVIOUS
  <2>2. /\ <<q[1], q[3]>> \in S /\ q[2] = q[3]
        /\ q[1] = "syslog" => q = <<"syslog", 0, 0>>
    BY <2>1, InPlaceOnly
  <2>3. <<q[1], q[3]>> \in Promised(request.view, item.has \cup parts)
    <3>1. <<q[1], q[3]>> \in item.has \cup parts /\ <<q[1], q[3]>>[1] = q[1]
      BY <2>2
    <3>2. CASE request.view = "FULL"
      BY <3>1, <3>2 DEF Promised
    <3>3. CASE request.view = "BASIC"
      <4>1. Promised(request.view, item.has \cup parts) = {p \in item.has \cup parts : ~Split(p[1])}
        BY <3>3 DEF Promised
      <4>2. QED
        BY <2>1, <3>1, <3>3, <4>1
    <3>4. QED
      BY <2>1, <3>2, <3>3
  <2>4. QED
    BY <2>2, <2>3
<1>3. ASSUME request.view # "MINIMAL" PROVE <<"fields", 0, 0>> \in t
  <2>1. <<"fields", 0, 0>> \in InPlace(S)
    BY InPlaceIs
  <2>2. <<"fields", 0, 0>>[1] = "fields" /\ ~Split("fields")
    BY DEF Split
  <2>3. QED
    BY <1>3, <2>1, <2>2
<1>4. QED
  BY <1>1, <1>2, <1>3 DEF Right

(* The stores that keep the task in one document answer right: Strip,      *)
(* getTask and Project, and applyView after trimUnusedExecutorLogs.        *)
LEMMA DocumentRight ==
  ASSUME ViewsInv, vdb \in DocumentStores, versions # {}, request.view # NoView, NEW t,
         t = CASE vdb = "badger"   -> Strip(InPlace(item.has), request.view)
               [] vdb = "elastic"  -> getTask(InPlace(item.has), request.view)
               [] vdb = "mongodb"  -> Project(InPlace(item.has), request.view)
               [] vdb = "postgres" -> applyView(InPlace(trimUnusedExecutorLogs(item)), request.view)
  PROVE  Right(t, item, item.has \cup parts)
<1> DEFINE Viewed(S) == {q \in InPlace(S) : request.view # "MINIMAL" /\ (request.view = "BASIC" => ~Split(q[1]))}
<1>1. /\ request.view \in {"MINIMAL", "BASIC", "FULL"} /\ parts = {}
      /\ item.has \subseteq Piece /\ <<"fields", 0>> \in item.has
  BY ViewIs DEF ViewsInv, ViewType, ItemsInv, Kept, Item
<1>2. ASSUME NEW S PROVE Strip(InPlace(S), request.view) = Viewed(S)
  BY <1>1 DEF Strip, GetMinimalView, GetBasicView
<1>3. ASSUME NEW S PROVE getTask(InPlace(S), request.view) = Viewed(S)
  BY <1>1 DEF getTask, basicExclude, Split
<1>4. CASE vdb # "postgres"
  <2>1. t = Viewed(item.has)
    BY <1>2, <1>3, <1>4 DEF DocumentStores, Project
  <2>2. QED
    BY <1>1, <2>1, PlacedRight
<1>5. CASE vdb = "postgres"
  <2> DEFINE S == trimUnusedExecutorLogs(item)
  <2>1. t = Viewed(S)
    BY <1>2, <1>5 DEF applyView
  <2>2. S \subseteq item.has
    BY DEF trimUnusedExecutorLogs
  <2>3. <<"fields", 0>> \in S
    <3>1. <<"fields", 0>>[2] = 0
      OBVIOUS
    <3>2. QED
      BY <1>1, <3>1 DEF trimUnusedExecutorLogs
  <2>4. ASSUME NEW p \in item.has PROVE p \in S \/ LacksOf(p, item)
    <3>1. SUFFICES ASSUME ~LacksOf(p, item), p[2] # 0 PROVE p \in S
      BY DEF trimUnusedExecutorLogs
    <3>2. PICK e \in p[2] .. LastExecutor : <<"start", e>> \in item.has
      BY <1>5, <3>1 DEF LacksOf
    <3>3. p[2] <= e
      <4>1. p[2] \in Nat
        BY <1>1, PieceIs
      <4>2. QED
        BY <3>2, <4>1, ViewsAssumption
    <3>4. <<"start", e>> \in {q \in item.has : q[1] = "start"} /\ <<"start", e>>[2] = e
      BY <3>2
    <3>5. e \in {q[2] : q \in {x \in item.has : x[1] = "start"}}
      BY <3>4
    <3>6. QED
      <4>1. \E f \in {q[2] : q \in {x \in item.has : x[1] = "start"}} : p[2] <= f
        BY <3>3, <3>5
      <4>2. QED
        BY <4>1 DEF trimUnusedExecutorLogs
  <2>5. QED
    <3>1. S \subseteq item.has \cup parts /\ S \subseteq Piece
      BY <1>1, <2>2
    <3>2. \A p \in item.has \cup parts : p \in S \/ LacksOf(p, item) \/ (request.view = "BASIC" /\ Split(p[1]))
      BY <1>1, <2>4
    <3> HIDE DEF S
    <3>3. QED
      BY <1>1, <2>1, <2>3, <3>1, <3>2, PlacedRight
<1>6. QED
  BY <1>4, <1>5

(* An empty answer is right for the minimal view.                          *)
LEMMA EmptyRight ==
  ASSUME request.view = "MINIMAL", NEW r, NEW k
  PROVE  Right({}, r, k)
<1>1. \A S : Promised(request.view, S) = {}
  BY DEF Promised
<1>2. QED
  BY <1>1 DEF Right

(* The pieces of the full and of the basic view.                           *)
LEMMA PromisedIs ==
  ASSUME NEW S, NEW p
  PROVE  /\ request.view = "FULL" => (p \in Promised(request.view, S) <=> p \in S)
         /\ request.view = "BASIC" => (p \in Promised(request.view, S) <=> p \in S /\ ~Split(p[1]))
BY DEF Promised

(* What is kept elsewhere is not part of a basic view.                     *)
LEMMA ElsewhereIs ==
  ASSUME NEW p \in Elsewhere
  PROVE  /\ p \in Piece /\ Split(p[1])
         /\ \/ p[1] = "tail" /\ p[2] \in Executor /\ p[2] # 0
            \/ p = <<"content", 0>>
            \/ p = <<"syslog", 0>>
<1>1. CASE p \in TailEvents
  <2>1. p \in Piece
    BY <1>1 DEF Piece, Events
  <2>2. p[1] = "tail"
    BY <1>1 DEF TailEvents
  <2>3. QED
    BY <2>1, <2>2, PieceIs DEF Split
<1>2. CASE p = <<"content", 0>> \/ p = <<"syslog", 0>>
  <2>1. p \in Piece
    BY <1>2 DEF Piece, Events, Created
  <2>2. p[1] \in {"content", "syslog"}
    BY <1>2
  <2>3. QED
    BY <1>2, <2>1, <2>2 DEF Split
<1>3. QED
  BY <1>1, <1>2 DEF Elsewhere

(* loadTaskLogs shows each piece of the item, in the entry of its executor *)
(* unless there is a gap.                                                  *)
LEMMA LoadedIs ==
  ASSUME ViewsInv, vdb = "boltdb", versions # {}
  PROVE  /\ \A p \in item.has : <<p[1], At(item.logs, p[2]), p[2]>> \in loadTaskLogs(item)
         /\ <<"fields", 0, 0>> \in loadTaskLogs(item)
         /\ \A q \in loadTaskLogs(item) :
              /\ <<q[1], q[3]>> \in item.has /\ (q[2] = q[3] \/ Gaps(item))
              /\ q[1] \notin {"tail", "syslog"}
<1>1. /\ item.has \subseteq Piece /\ item.logs \subseteq Nat \ {0} /\ <<"fields", 0>> \in item.has
      /\ \A p \in item.has : p[2] # 0 => p[2] \in item.logs
      /\ \A p \in item.has : p[1] \notin {"tail", "syslog"}
  BY LogsFinite DEF ViewsInv, ViewType, ItemsInv, Kept, Item, SplitStores
<1>2. At(item.logs, 0) = 0
  <2>1. {f \in item.logs : f <= 0} = {}
    BY <1>1
  <2>2. QED
    BY <2>1, FS_EmptySet DEF At
<1>3. ASSUME NEW p \in item.has PROVE <<p[1], At(item.logs, p[2]), p[2]>> \in loadTaskLogs(item)
  BY DEF loadTaskLogs
<1>4. <<"fields", 0, 0>> \in loadTaskLogs(item)
  <2>1. <<<<"fields", 0>>[1], At(item.logs, <<"fields", 0>>[2]), <<"fields", 0>>[2]>> \in loadTaskLogs(item)
    BY <1>1, <1>3
  <2>2. <<"fields", 0>>[1] = "fields" /\ <<"fields", 0>>[2] = 0
    OBVIOUS
  <2>3. QED
    BY <1>2, <2>1, <2>2
<1>5. ASSUME NEW q \in loadTaskLogs(item)
      PROVE  /\ <<q[1], q[3]>> \in item.has /\ (q[2] = q[3] \/ Gaps(item))
             /\ q[1] \notin {"tail", "syslog"}
  <2>1. PICK p \in item.has : q = <<p[1], At(item.logs, p[2]), p[2]>>
    BY DEF loadTaskLogs
  <2>2. q[1] = p[1] /\ q[2] = At(item.logs, p[2]) /\ q[3] = p[2] /\ p = <<p[1], p[2]>>
    BY <1>1, <2>1, PieceIs
  <2>3. p[2] # 0 => p[2] \in item.logs
    BY <1>1
  <2>4. q[2] = q[3] \/ Gaps(item)
    BY <1>2, <2>2, <2>3 DEF Gaps
  <2>5. QED
    BY <1>1, <2>2, <2>4
<1>6. QED
  BY <1>3, <1>4, <1>5

(* BoltDB's getTaskView answers right.                                     *)
LEMMA BoltRight ==
  ASSUME ViewsInv, vdb = "boltdb", versions # {}, request.view # NoView, NEW t,
         t = CASE request.view \in {"MINIMAL", NoView} -> loadMinimalTaskView(item)
               [] request.view = "BASIC"               -> loadBasicTaskView(item)
               [] request.view = "FULL"                -> loadFullTaskView(item)
  PROVE  Right(t, item, item.has \cup parts)
<1>1. /\ request.view \in {"MINIMAL", "BASIC", "FULL"} /\ NoView \notin {"MINIMAL", "BASIC", "FULL"}
      /\ item.has \subseteq Piece /\ parts \subseteq Elsewhere
      /\ \A p \in parts : p[1] # "content"
  BY ViewIs DEF ViewsInv, ViewType, ItemsInv, Item, View
<1>2. /\ \A p \in item.has : <<p[1], At(item.logs, p[2]), p[2]>> \in loadTaskLogs(item)
      /\ <<"fields", 0, 0>> \in loadTaskLogs(item)
      /\ \A q \in loadTaskLogs(item) :
           /\ <<q[1], q[3]>> \in item.has /\ (q[2] = q[3] \/ Gaps(item))
           /\ q[1] \notin {"tail", "syslog"}
  BY LoadedIs
<1>3. CASE request.view = "MINIMAL"
  <2>1. t = {}
    BY <1>1, <1>3 DEF loadMinimalTaskView
  <2>2. QED
    BY <1>3, <2>1, EmptyRight
<1>4. CASE request.view = "BASIC"
  <2>1. t = {q \in loadTaskLogs(item) : q[1] # "content"}
    BY <1>1, <1>4 DEF loadBasicTaskView
  <2>2. ASSUME NEW p \in Promised(request.view, item.has \cup parts)
        PROVE  \E q \in t : q[1] = p[1] /\ q[3] = p[2]
    <3>1. p \in item.has /\ ~Split(p[1])
      BY <1>1, <1>4, PromisedIs, ElsewhereIs
    <3>2. <<p[1], At(item.logs, p[2]), p[2]>> \in t
      BY <1>2, <2>1, <3>1 DEF Split
    <3>3. QED
      BY <3>2
  <2>3. ASSUME NEW q \in t
        PROVE  /\ <<q[1], q[3]>> \in Promised(request.view, item.has \cup parts) /\ (q[2] = q[3] \/ Gaps(item))
               /\ q[1] # "syslog"
    <3>1. /\ <<q[1], q[3]>> \in item.has /\ (q[2] = q[3] \/ Gaps(item))
          /\ q[1] \notin {"tail", "syslog", "content"} /\ <<q[1], q[3]>>[1] = q[1]
      BY <1>2, <2>1
    <3>2. QED
      BY <1>4, <3>1, PromisedIs DEF Split
  <2>4. <<"fields", 0, 0>> \in t
    BY <1>2, <2>1
  <2>5. QED
    BY <2>2, <2>3, <2>4 DEF Right
<1>5. CASE request.view = "FULL"
  <2>0. loadFullTaskView(item) = t
    BY <1>1, <1>5
  <2>1. /\ loadTaskLogs(item) \subseteq t
        /\ \A p \in parts : p[1] = "tail" /\ p[2] <= Cardinality(item.logs) => <<"tail", p[2], p[2]>> \in t
        /\ \A p \in parts : p[1] = "syslog" => <<"syslog", 0, 0>> \in t
    BY <2>0 DEF loadFullTaskView
  <2>2. ASSUME NEW q \in t
        PROVE  \/ q \in loadTaskLogs(item)
               \/ \E p \in parts : p[1] = "tail" /\ q = <<"tail", p[2], p[2]>>
               \/ q = <<"syslog", 0, 0>> /\ \E p \in parts : p[1] = "syslog"
    BY <2>0 DEF loadFullTaskView
  <2>3. ASSUME NEW p \in Promised(request.view, item.has \cup parts), ~LacksOf(p, item)
        PROVE  \E q \in t : q[1] = p[1] /\ q[3] = p[2]
    <3>1. CASE p \in item.has
      <4>1. <<p[1], At(item.logs, p[2]), p[2]>> \in t
        BY <1>2, <2>1, <3>1
      <4>2. QED
        BY <4>1
    <3>2. CASE p \in parts /\ p[1] = "tail"
      <4>1. p[2] \in Nat /\ ~(p[2] > Cardinality(item.logs))
        BY <1>1, <2>3, <3>2, PieceIs, ElsewhereIs DEF LacksOf
      <4>2. Cardinality(item.logs) \in Nat
        BY LogsFinite DEF ViewsInv, ViewType
      <4>3. p[2] <= Cardinality(item.logs)
        BY <4>1, <4>2
      <4>4. <<"tail", p[2], p[2]>> \in t
        BY <2>1, <3>2, <4>3
      <4>5. QED
        BY <3>2, <4>4
    <3>3. CASE p \in parts /\ p[1] = "syslog"
      <4>1. <<"syslog", 0, 0>> \in t /\ p[2] = 0
        BY <1>1, <2>1, <3>3, ElsewhereIs, PieceIs
      <4>2. QED
        BY <3>3, <4>1
    <3>4. QED
      BY <1>1, <1>5, <2>3, <3>1, <3>2, <3>3, PromisedIs, ElsewhereIs
  <2>4. ASSUME NEW q \in t
        PROVE  /\ <<q[1], q[3]>> \in item.has \cup parts /\ (q[2] = q[3] \/ Gaps(item))
               /\ q[1] = "syslog" => q = <<"syslog", 0, 0>>
    <3>1. CASE q \in loadTaskLogs(item)
      BY <1>2, <3>1
    <3>2. CASE \E p \in parts : p[1] = "tail" /\ q = <<"tail", p[2], p[2]>>
      <4>1. PICK p \in parts : p[1] = "tail" /\ q = <<"tail", p[2], p[2]>>
        BY <3>2
      <4>2. p = <<p[1], p[2]>> /\ q[1] = p[1] /\ q[2] = p[2] /\ q[3] = p[2]
        BY <1>1, <4>1, PieceIs, ElsewhereIs
      <4>3. QED
        BY <4>1, <4>2
    <3>3. CASE q = <<"syslog", 0, 0>> /\ \E p \in parts : p[1] = "syslog"
      <4>1. PICK p \in parts : p[1] = "syslog"
        BY <3>3
      <4>2. p = <<"syslog", 0>>
        BY <1>1, <4>1, PieceIs, ElsewhereIs
      <4>3. q[1] = "syslog" /\ q[2] = 0 /\ q[3] = 0
        BY <3>3
      <4>4. QED
        BY <3>3, <4>2, <4>3
    <3>4. QED
      BY <2>2, <3>1, <3>2, <3>3
  <2>5. <<"fields", 0, 0>> \in t
    BY <1>2, <2>1
  <2>6. QED
    BY <1>5, <2>3, <2>4, <2>5, PromisedIs DEF Right
<1>6. QED
  BY <1>1, <1>3, <1>4, <1>5

(* A step of GetTask leaves what is said of the store.                     *)
LEMMA StoreSame ==
  ASSUME ViewsInv, versions # {}, UNCHANGED <<vdb, sent, lost, item, parts, versions, request>>,
         read' \in Item, step' \in Steps
  PROVE  ViewType' /\ ItemsInv' /\ EntriesInv'
<1>1. ViewType'
  BY DEF ViewsInv, ViewType
<1>2. ItemsInv'
  BY DEF ViewsInv, ItemsInv, Kept, Unstored
<1>3. EntriesInv'
  BY DEF ViewsInv, EntriesInv
<1>4. QED
  BY <1>1, <1>2, <1>3

(* What a step of GetTask may build its answer on.                         *)
Basis ==
  /\ read' \in Item /\ Kept(read')
  /\ read'.has \subseteq known' /\ known' \subseteq read'.has \cup parts
  /\ Created \ Unstored \subseteq known'

(* A step that gives a right answer keeps the invariant.                   *)
LEMMA AnswerStep ==
  ASSUME ViewsInv, versions # {}, UNCHANGED <<vdb, sent, lost, item, parts, versions, request>>,
         Basis, NEW t, Answer(t), request.view # NoView => Right(t, read', known')
  PROVE  ViewsInv'
<1>1. step' = "answered" /\ shown' = IF request.http THEN TranslateTask(t) ELSE t
  BY DEF Answer
<1>2. ViewType' /\ ItemsInv' /\ EntriesInv'
  BY <1>1, StoreSame DEF Basis, Steps
<1>3. ReadInv'
  BY DEF ReadInv, Basis, Kept, Unstored
<1>4. QueryInv'
  BY <1>1 DEF QueryInv
<1>5. ViewsExact'
  <2>1. SUFFICES ASSUME request.view # NoView
                 PROVE  /\ \A p \in Promised(request.view, known' \cup (Created \ Unstored)) :
                             ~Lacks(p)' => \E q \in shown' : q[1] = p[1] /\ q[3] = p[2]
                        /\ \A q \in shown' : /\ <<q[1], q[3]>> \in Promised(request.view, item.has \cup parts)
                                             /\ q[2] = q[3] \/ Gaps(read')
    BY <1>1 DEF ViewsExact, Promised, Unstored, Gaps, At
  <2>2. known' \cup (Created \ Unstored) = known'
    BY DEF Basis
  <2>3. QED
    BY <1>1, <2>1, <2>2, TranslatedRight
<1>6. QED
  BY <1>2, <1>3, <1>4, <1>5 DEF ViewsInv

(* Reading an item gives such a basis.                                     *)
LEMMA BasisNow ==
  ASSUME ViewsInv, NEW v \in versions, Found(v)
  PROVE  Basis
<1>1. v \in Item /\ Kept(v) /\ read' = v /\ known' = v.has \cup parts
  BY DEF ViewsInv, ViewType, ItemsInv, Found
<1>2. Created \ Unstored \subseteq v.has \cup parts
  BY <1>1 DEF Kept
<1>3. QED
  BY <1>1, <1>2 DEF Basis

(* GetTask in one document, and in BoltDB, keeps the invariant.            *)
LEMMA DocumentStep ==
  ASSUME ViewsInv, GetDocument \/ getTaskView
  PROVE  ViewsInv'
<1>1. versions # {} /\ item \in versions
  BY DEF ViewsInv, ItemsInv, GetDocument, getTaskView
<1>2. /\ UNCHANGED <<vdb, sent, lost, item, parts, versions, request>> /\ Found(item)
      /\ read' = item /\ known' = item.has \cup parts
  BY DEF GetDocument, getTaskView, Found
<1>3. Basis
  BY <1>1, <1>2, BasisNow
<1>4. CASE GetDocument
  <2>1. PICK t : Answer(t) /\
         t = CASE vdb = "badger"   -> Strip(InPlace(item.has), request.view)
               [] vdb = "elastic"  -> getTask(InPlace(item.has), request.view)
               [] vdb = "mongodb"  -> Project(InPlace(item.has), request.view)
               [] vdb = "postgres" -> applyView(InPlace(trimUnusedExecutorLogs(item)), request.view)
    BY <1>4 DEF GetDocument
  <2>2. request.view # NoView => Right(t, read', known')
    BY <1>1, <1>2, <1>4, <2>1, DocumentRight DEF GetDocument
  <2>3. QED
    BY <1>1, <1>2, <1>3, <2>1, <2>2, AnswerStep
<1>5. CASE getTaskView
  <2>1. PICK t : Answer(t) /\
         t = CASE request.view \in {"MINIMAL", NoView} -> loadMinimalTaskView(item)
               [] request.view = "BASIC"               -> loadBasicTaskView(item)
               [] request.view = "FULL"                -> loadFullTaskView(item)
    BY <1>5 DEF getTaskView
  <2>2. request.view # NoView => Right(t, read', known')
    BY <1>1, <1>2, <1>5, <2>1, BoltRight DEF getTaskView
  <2>3. QED
    BY <1>1, <1>2, <1>3, <2>1, <2>2, AnswerStep
<1>6. QED
  BY <1>4, <1>5

(* So does a request.                                                      *)
LEMMA AskStep ==
  ASSUME ViewsInv, Ask
  PROVE  ViewsInv'
<1>1. request' \in [view : View, http : BOOLEAN] /\ step' = "get" /\ versions # {}
  BY DEF Ask
<1>2. ViewType'
  BY <1>1 DEF Ask, ViewsInv, ViewType, Steps
<1>3. ItemsInv'
  BY <1>1 DEF Ask, ViewsInv, ItemsInv, Kept, Unstored
<1>4. EntriesInv'
  BY DEF Ask, ViewsInv, EntriesInv
<1>5. ReadInv' /\ QueryInv' /\ ViewsExact'
  BY <1>1 DEF ReadInv, Reading, QueryInv, ViewsExact
<1>6. QED
  BY <1>2, <1>3, <1>4, <1>5 DEF ViewsInv

(* The basic view of DynamoDB and Datastore is right.                      *)
LEMMA ItemRight ==
  ASSUME ViewsInv, vdb \in {"dynamodb", "datastore"}, NEW v \in versions, request.view = "BASIC"
  PROVE  Right(InPlace(v.has), v, v.has \cup parts)
<1>1. /\ v.has \subseteq Piece /\ v.has \subseteq item.has /\ <<"fields", 0>> \in v.has
      /\ parts \subseteq Elsewhere
  BY DEF ViewsInv, ViewType, ItemsInv, Kept, Item
<1>2. \A p \in v.has : p[1] \notin {"tail", "syslog", "content"}
  BY DEF ViewsInv, ItemsInv, Kept, SplitStores
<1>3. ASSUME NEW q \in InPlace(v.has) PROVE ~Split(q[1])
  <2>1. PICK p \in v.has : q = <<p[1], p[2], p[2]>>
    BY DEF InPlace
  <2>2. q[1] = p[1]
    BY <2>1
  <2>3. QED
    BY <1>2, <2>2 DEF Split
<1>4. InPlace(v.has) = {q \in InPlace(v.has) : request.view # "MINIMAL" /\ (request.view = "BASIC" => ~Split(q[1]))}
  BY <1>3
<1>5. \A p \in v.has \cup parts : p \in v.has \/ LacksOf(p, v) \/ (request.view = "BASIC" /\ Split(p[1]))
  BY <1>1, ElsewhereIs
<1>6. v.has \subseteq item.has \cup parts
  BY <1>1
<1>7. QED
  BY <1>1, <1>4, <1>5, <1>6, PlacedRight

(* Reading the item of DynamoDB or the entity of Datastore keeps the       *)
(* invariant.                                                              *)
LEMMA ItemStep ==
  ASSUME ViewsInv, GetItem
  PROVE  ViewsInv'
<1>1. /\ UNCHANGED <<vdb, sent, lost, item, parts, versions, request>>
      /\ vdb \in {"dynamodb", "datastore"} /\ step = "get" /\ versions # {}
  BY DEF GetItem, ViewsInv, ItemsInv
<1>2. PICK old \in versions :
       /\ Found(old)
       /\ CASE request.view = "FULL"    -> step' = "parts" /\ UNCHANGED shown
            [] request.view = "MINIMAL" -> Answer(GetMinimalView)
            [] request.view = "BASIC"   -> Answer(InPlace(old.has))
            [] request.view = NoView    -> IF vdb = "datastore"
                                           THEN Answer(unmarshal(old))
                                           ELSE step' = "panicked" /\ UNCHANGED shown
  BY DEF GetItem
<1>3. read' = old /\ known' = old.has \cup parts /\ Basis
  BY <1>2, BasisNow DEF Found
<1>4. request.view \in View /\ NoView \notin {"MINIMAL", "BASIC", "FULL"}
  BY ViewIs DEF ViewsInv, ViewType, View
<1>5. CASE request.view = "FULL"
  <2>1. step' = "parts"
    BY <1>2, <1>4, <1>5
  <2>2. ViewType' /\ ItemsInv' /\ EntriesInv'
    BY <1>1, <1>3, <2>1, StoreSame DEF Basis, Steps
  <2>3. ReadInv'
    BY <1>1, <1>3 DEF ReadInv, Basis, Kept, Unstored
  <2>4. QueryInv' /\ ViewsExact'
    BY <1>1, <1>5, <2>1 DEF QueryInv, ViewsExact
  <2>5. QED
    BY <2>2, <2>3, <2>4 DEF ViewsInv
<1>6. CASE request.view = "MINIMAL"
  <2>1. Answer({})
    BY <1>2, <1>4, <1>6 DEF GetMinimalView
  <2>2. QED
    BY <1>1, <1>3, <1>6, <2>1, AnswerStep, EmptyRight
<1>7. CASE request.view = "BASIC"
  <2>1. Answer(InPlace(old.has))
    BY <1>2, <1>4, <1>7
  <2>2. Right(InPlace(old.has), read', known')
    BY <1>1, <1>3, <1>7, ItemRight
  <2>3. QED
    BY <1>1, <1>3, <2>1, <2>2, AnswerStep
<1>8. CASE request.view = NoView /\ vdb = "datastore"
  <2>1. Answer(unmarshal(old))
    BY <1>2, <1>4, <1>8
  <2>2. QED
    BY <1>1, <1>3, <1>8, <2>1, AnswerStep
<1>9. CASE request.view = NoView /\ vdb # "datastore"
  <2>1. step' = "panicked"
    BY <1>2, <1>4, <1>9
  <2>2. ViewType' /\ ItemsInv' /\ EntriesInv'
    BY <1>1, <1>3, <2>1, StoreSame DEF Basis, Steps
  <2>3. ReadInv'
    BY <1>1, <1>3 DEF ReadInv, Basis, Kept, Unstored
  <2>4. QueryInv' /\ ViewsExact'
    BY <1>1, <1>9, <2>1 DEF QueryInv, ViewsExact
  <2>5. QED
    BY <2>2, <2>3, <2>4 DEF ViewsInv
<1>10. QED
  BY <1>1, <1>4, <1>5, <1>6, <1>7, <1>8, <1>9, ViewIs

(* The item that was read stays a basis while the parts are asked for.     *)
LEMMA BasisThen ==
  ASSUME ViewsInv, step \in {"parts", "tails", "syslogs"}, UNCHANGED <<read, known>>
  PROVE  Basis /\ versions # {}
BY DEF ViewsInv, ViewType, ReadInv, Reading, Basis, ItemsInv

(* Datastore's GetMulti keeps the invariant.                               *)
LEMMA MultiStep ==
  ASSUME ViewsInv, GetMulti
  PROVE  ViewsInv'
<1>1. /\ UNCHANGED <<vdb, sent, lost, item, parts, versions, request, read, known>>
      /\ vdb = "datastore" /\ step = "parts" /\ request.view = "FULL"
      /\ Answer(unmarshalPart(unmarshal(read), parts \cap viewPartKeys(read)))
  BY DEF GetMulti, ViewsInv, QueryInv
<1>2. Basis /\ versions # {}
  BY <1>1, BasisThen
<1> DEFINE S == read.has \cup (parts \cap viewPartKeys(read))
<1>3. /\ read \in Item /\ Kept(read) /\ known \subseteq read.has \cup parts /\ parts \subseteq Elsewhere
  BY <1>1 DEF ViewsInv, ViewType, ReadInv, Reading
<1>4. unmarshalPart(unmarshal(read), parts \cap viewPartKeys(read)) = InPlace(S)
  BY DEF unmarshalPart, unmarshal, InPlace
<1>5. S \subseteq item.has \cup parts /\ S \subseteq Piece /\ <<"fields", 0>> \in S
  BY <1>3, ElsewhereIs DEF Kept, Item
<1>6. ASSUME NEW p \in known PROVE p \in S \/ LacksOf(p, read)
  <2>1. SUFFICES ASSUME p \in parts, p \notin viewPartKeys(read) PROVE LacksOf(p, read)
    BY <1>3
  <2>2. p[1] = "tail" /\ p[2] \in Executor /\ p[2] \notin read.logs
    <3>1. p \in Elsewhere /\ ~(p[2] \in {0} \cup read.logs)
      BY <1>3, <2>1 DEF viewPartKeys, Elsewhere
    <3>2. <<"content", 0>>[2] = 0 /\ <<"syslog", 0>>[2] = 0
      OBVIOUS
    <3>3. QED
      BY <3>1, <3>2, ElsewhereIs
  <2>3. PICK n \in Nat : read.logs = 1..n
    BY <1>1, <1>3 DEF Kept, Numbered
  <2>4. Cardinality(read.logs) = n
    BY <2>3, FS_Interval
  <2>5. p[2] > Cardinality(read.logs)
    BY <2>2, <2>3, <2>4, ViewsAssumption DEF Executor
  <2>6. QED
    BY <1>1, <2>2, <2>5 DEF LacksOf
<1>7. InPlace(S) = {q \in InPlace(S) : request.view # "MINIMAL" /\ (request.view = "BASIC" => ~Split(q[1]))}
  BY <1>1
<1>8. Right(InPlace(S), read, known)
  <2> HIDE DEF S
  <2>1. \A p \in known : p \in S \/ LacksOf(p, read) \/ (request.view = "BASIC" /\ Split(p[1]))
    BY <1>6
  <2>2. request.view \in {"MINIMAL", "BASIC", "FULL"}
    BY <1>1
  <2>3. QED
    BY <1>5, <1>7, <2>1, <2>2, PlacedRight
<1>9. QED
  BY <1>1, <1>2, <1>4, <1>8, AnswerStep

(* Every piece of an answer is stored, and stands in the entry of its      *)
(* executor.                                                               *)
Places(t) == \A q \in t : q = <<q[1], q[3], q[3]>> /\ <<q[1], q[3]>> \in read.has \cup parts

(* The result of a query, put in place.                                    *)
LEMMA PartsPlaced ==
  ASSUME ViewsInv, NEW kind, NEW found, found = {p \in parts : p[1] = kind}
  PROVE  /\ Places(InPlace(found))
         /\ \A p \in parts : p[1] = kind => \E q \in InPlace(found) : q[1] = p[1] /\ q[3] = p[2]
<1>1. found \subseteq Piece /\ found \subseteq parts
  BY ElsewhereIs DEF ViewsInv, ViewType
<1>2. Places(InPlace(found))
  BY <1>1, InPlaceOnly DEF Places
<1>3. QED
  BY <1>1, <1>2, InPlaceShows

(* A query that panics or fails keeps the invariant: the item that was     *)
(* read has an entry for every tail, unless it is an old one or an event   *)
(* was lost.                                                               *)
LEMMA PanicStep ==
  ASSUME ViewsInv, vdb = "dynamodb", step \in {"parts", "tails", "syslogs"}, step' \in {"panicked", "failed"},
         UNCHANGED <<vdb, sent, lost, item, parts, versions, request, read, known>>,
         step' = "panicked" => \E p \in parts : p[2] # 0 /\ p[2] \notin read.logs
  PROVE  ViewsInv'
<1>1. Basis /\ versions # {}
  BY BasisThen
<1>2. ViewType' /\ ItemsInv' /\ EntriesInv'
  BY <1>1, StoreSame DEF Basis, Steps
<1>3. ReadInv'
  BY <1>1 DEF ReadInv, Basis, Kept, Unstored
<1>4. QueryInv'
  BY DEF QueryInv
<1>5. ViewsExact'
  BY DEF ViewsInv, EntriesInv, ViewsExact
<1>6. QED
  BY <1>2, <1>3, <1>4, <1>5 DEF ViewsInv

(* A query that is followed by another keeps the invariant.                *)
LEMMA QueryStep ==
  ASSUME ViewsInv, vdb = "dynamodb", UNCHANGED <<vdb, sent, lost, item, parts, versions, request, read, known>>,
         NEW t, Places(t), InPlace(read.has) \subseteq t, shown' = t,
         \/ step = "parts" /\ step' = "tails"
         \/ step = "tails" /\ step' = "syslogs",
         \A p \in known : p[1] = "content" \/ (p[1] = "tail" /\ step' = "syslogs") =>
            \E q \in t : q[1] = p[1] /\ q[3] = p[2]
  PROVE  ViewsInv'
<1>1. Basis /\ versions # {}
  BY BasisThen
<1>2. ViewType' /\ ItemsInv' /\ EntriesInv'
  BY <1>1, StoreSame DEF Basis, Steps
<1>3. ReadInv'
  BY <1>1 DEF ReadInv, Basis, Kept, Unstored
<1>4. QueryInv'
  <2>1. request.view = "FULL"
    BY DEF ViewsInv, QueryInv
  <2>2. InPlace(read.has)' = InPlace(read.has)
    BY DEF InPlace
  <2>3. step' \in {"tails", "syslogs"}
    OBVIOUS
  <2>4. \A q \in shown' : q = <<q[1], q[3], q[3]>> /\ <<q[1], q[3]>> \in read'.has \cup parts'
    BY DEF Places
  <2>5. QED
    BY <2>1, <2>2, <2>3, <2>4 DEF QueryInv
<1>5. ViewsExact'
  BY DEF ViewsExact
<1>6. QED
  BY <1>2, <1>3, <1>4, <1>5 DEF ViewsInv

(* DynamoDB's getFullView keeps the invariant.                             *)
LEMMA FullStep ==
  ASSUME ViewsInv, getFullView
  PROVE  ViewsInv'
<1>1. /\ UNCHANGED <<vdb, sent, lost, item, parts, versions, request, read, known>>
      /\ vdb = "dynamodb" /\ step \in {"parts", "tails", "syslogs"} /\ request.view = "FULL"
  BY DEF getFullView, ViewsInv, QueryInv
<1>2. /\ read \in Item /\ Kept(read) /\ known \subseteq read.has \cup parts /\ parts \subseteq Elsewhere
      /\ Basis /\ versions # {}
  BY <1>1, BasisThen DEF ViewsInv, ViewType, ReadInv, Reading
<1>3. CASE step' = "failed"
  BY <1>1, <1>3, PanicStep
<1>4. CASE step' = "panicked"
  BY <1>1, <1>4, PanicStep DEF getFullView, Query, Answer
<1>5. ASSUME step' \notin {"failed", "panicked"}, NEW kind, Query(kind)
      PROVE  LET found == {p \in parts : p[1] = kind}
             IN  /\ kind = "content" => shown' = InPlace(read.has \cup found) /\ step' = "tails"
                 /\ kind = "tail"    => shown' = shown \cup InPlace(found) /\ step' = "syslogs"
                 /\ kind = "syslog"  => Answer(shown \cup InPlace(found))
  BY <1>5 DEF Query
<1>6. CASE step = "parts" /\ step' \notin {"failed", "panicked"}
  <2> DEFINE found == {p \in parts : p[1] = "content"}
  <2>1. shown' = InPlace(read.has \cup found) /\ step' = "tails"
    BY <1>5, <1>6 DEF getFullView
  <2>2. InPlace(read.has \cup found) = InPlace(read.has) \cup InPlace(found)
    BY DEF InPlace
  <2>3. Places(InPlace(found)) /\ \A p \in parts : p[1] = "content" => \E q \in InPlace(found) : q[1] = p[1] /\ q[3] = p[2]
    BY PartsPlaced
  <2>4. Places(InPlace(read.has))
    BY <1>2, InPlaceOnly DEF Places, Item
  <2>5. \A p \in read.has : \E q \in InPlace(read.has) : q[1] = p[1] /\ q[3] = p[2]
    BY InPlaceShows
  <2> HIDE DEF found
  <2>6. Places(shown') /\ InPlace(read.has) \subseteq shown'
    BY <2>1, <2>2, <2>3, <2>4 DEF Places
  <2>7. \A p \in known : p[1] = "content" => \E q \in shown' : q[1] = p[1] /\ q[3] = p[2]
    BY <1>2, <2>1, <2>2, <2>3, <2>5
  <2>8. QED
    BY <1>1, <1>6, <2>1, <2>6, <2>7, QueryStep
<1>7. CASE step = "tails" /\ step' \notin {"failed", "panicked"}
  <2> DEFINE found == {p \in parts : p[1] = "tail"}
  <2>1. shown' = shown \cup InPlace(found) /\ step' = "syslogs"
    BY <1>5, <1>7 DEF getFullView
  <2>2. Places(InPlace(found)) /\ \A p \in parts : p[1] = "tail" => \E q \in InPlace(found) : q[1] = p[1] /\ q[3] = p[2]
    BY PartsPlaced
  <2>3. /\ Places(shown) /\ InPlace(read.has) \subseteq shown
        /\ \A p \in known : p[1] = "content" => \E q \in shown : q[1] = p[1] /\ q[3] = p[2]
    BY <1>7 DEF ViewsInv, QueryInv, Places
  <2>4. \A p \in read.has : \E q \in InPlace(read.has) : q[1] = p[1] /\ q[3] = p[2]
    BY InPlaceShows
  <2> HIDE DEF found
  <2>5. Places(shown') /\ InPlace(read.has) \subseteq shown'
    BY <2>1, <2>2, <2>3 DEF Places
  <2>6. \A p \in known : p[1] = "content" \/ p[1] = "tail" => \E q \in shown' : q[1] = p[1] /\ q[3] = p[2]
    BY <1>2, <2>1, <2>2, <2>3, <2>4
  <2>7. QED
    BY <1>1, <1>7, <2>1, <2>5, <2>6, QueryStep
<1>8. CASE step = "syslogs" /\ step' \notin {"failed", "panicked"}
  <2> DEFINE found == {p \in parts : p[1] = "syslog"}
             t == shown \cup InPlace(found)
  <2>1. Answer(t)
    BY <1>5, <1>8 DEF getFullView
  <2>2. Places(InPlace(found)) /\ \A p \in parts : p[1] = "syslog" => \E q \in InPlace(found) : q[1] = p[1] /\ q[3] = p[2]
    BY PartsPlaced
  <2>3. /\ Places(shown) /\ InPlace(read.has) \subseteq shown
        /\ \A p \in known : p[1] \in {"content", "tail"} => \E q \in shown : q[1] = p[1] /\ q[3] = p[2]
    BY <1>8 DEF ViewsInv, QueryInv, Places
  <2>4. \A p \in read.has : \E q \in InPlace(read.has) : q[1] = p[1] /\ q[3] = p[2]
    BY InPlaceShows
  <2>5. \A p \in parts : p[1] \in {"content", "tail", "syslog"}
    BY <1>2, ElsewhereIs DEF Split
  <2> HIDE DEF found
  <2>6. \A p \in known : \E q \in t : q[1] = p[1] /\ q[3] = p[2]
    BY <1>2, <2>2, <2>3, <2>4, <2>5
  <2>7. Places(t)
    BY <2>2, <2>3 DEF Places
  <2>8. <<"fields", 0, 0>> \in t
    <3>1. <<"fields", 0>> \in read.has
      BY <1>2 DEF Kept
    <3>2. <<"fields", 0, 0>> \in InPlace(read.has)
      BY <3>1, InPlaceIs
    <3>3. QED
      BY <2>3, <3>2
  <2>9. ASSUME NEW q \in t
        PROVE  /\ <<q[1], q[3]>> \in item.has \cup parts /\ q[2] = q[3]
               /\ q[1] = "syslog" => q = <<"syslog", 0, 0>>
    <3>1. q = <<q[1], q[3], q[3]>> /\ <<q[1], q[3]>> \in read.has \cup parts
      BY <2>7 DEF Places
    <3>2. read.has \cup parts \subseteq Piece /\ read.has \subseteq item.has
      BY <1>2, ElsewhereIs DEF Item, Kept
    <3>3. <<q[1], q[3]>>[1] = q[1] /\ <<q[1], q[3]>>[2] = q[3]
      OBVIOUS
    <3>4. q[1] = "syslog" => q[3] = 0
      BY <3>1, <3>2, <3>3, PieceIs
    <3>5. q[2] = q[3]
      BY <3>1
    <3>6. QED
      BY <3>1, <3>2, <3>4, <3>5
  <2>10. Right(t, read, known)
    <3> HIDE DEF t
    <3>1. QED
      BY <1>1, <2>6, <2>8, <2>9, PromisedIs DEF Right
  <2>11. QED
    <3> HIDE DEF t
    <3>1. QED
      BY <1>1, <1>2, <2>1, <2>10, AnswerStep
<1>9. QED
  BY <1>1, <1>3, <1>4, <1>6, <1>7, <1>8

(* A write that adds to what is stored keeps the invariant: an answer      *)
(* stays exact when more is stored after it.                               *)
LEMMA GrowStep ==
  ASSUME ViewsInv, versions # {}, UNCHANGED <<vdb, request, step, read, known, shown>>,
         item' \in Item, item.has \subseteq item'.has, item.logs \subseteq item'.logs,
         parts \subseteq parts', parts' \subseteq Elsewhere, lost => lost', sent' \subseteq Events,
         versions' \subseteq versions \cup {item'}, item' \in versions',
         vdb # "boltdb" => Numbered(item'.logs),
         vdb = "boltdb" => \A p \in item'.has : p[2] # 0 => p[2] \in item'.logs,
         vdb \in SplitStores => \A p \in item'.has : p[1] \notin {"tail", "syslog"},
         vdb \in {"dynamodb", "datastore"} => \A p \in item'.has : p[1] # "content",
         vdb \in DocumentStores => parts' = {},
         vdb = "boltdb" => \A p \in parts' : p[1] # "content",
         EntriesInv'
  PROVE  ViewsInv'
<1>1. ViewType'
  BY DEF ViewsInv, ViewType
<1>2. ASSUME NEW v, Kept(v) PROVE Kept(v)'
  BY <1>2 DEF Kept, Unstored
<1>3. Kept(item)
  BY DEF ViewsInv, ItemsInv
<1>4. Kept(item)'
  BY <1>3 DEF Kept, Unstored
<1>5. ItemsInv'
  <2>1. ASSUME NEW v \in versions' PROVE Kept(v)'
    <3>1. CASE v \in versions
      BY <1>2, <3>1 DEF ViewsInv, ItemsInv
    <3>2. CASE v = item'
      BY <1>4, <3>2 DEF Kept
    <3>3. QED
      BY <3>1, <3>2
  <2>2. QED
    BY <2>1 DEF ItemsInv
<1>6. ReadInv'
  <2>1. SUFFICES ASSUME Reading
                 PROVE  (Kept(read) /\ read.has \subseteq known /\ known \subseteq read.has \cup parts
                          /\ Created \ Unstored \subseteq known)'
    BY DEF ReadInv, Reading
  <2>2. Kept(read) /\ read.has \subseteq known /\ known \subseteq read.has \cup parts
          /\ Created \ Unstored \subseteq known
    BY <2>1 DEF ViewsInv, ReadInv
  <2>3. Kept(read)'
    BY <2>2 DEF Kept, Unstored
  <2>4. QED
    BY <2>2, <2>3 DEF Unstored
<1>7. QueryInv'
  BY DEF ViewsInv, QueryInv, InPlace
<1>8. ViewsExact'
  <2>1. ASSUME step = "panicked" PROVE vdb = "dynamodb" /\ (request.view = NoView \/ read # item' \/ lost')
    <3>1. vdb = "dynamodb" /\ (request.view = NoView \/ read # item \/ lost)
      BY <2>1 DEF ViewsInv, ViewsExact
    <3>2. read \in Item /\ item \in Item /\ read.has \subseteq item.has /\ read.logs \subseteq item.logs
      BY <2>1 DEF ViewsInv, ViewType, ReadInv, Reading, Kept
    <3>3. ASSUME read = item' PROVE read = item
      <4>1. read.has = item.has /\ read.logs = item.logs
        BY <3>2, <3>3
      <4>2. QED
        BY <3>2, <4>1 DEF Item
    <3>4. QED
      BY <3>1, <3>3
  <2>2. ASSUME step = "answered", request.view # NoView
        PROVE  /\ \A p \in Promised(request.view, known \cup (Created \ Unstored)) :
                    ~Lacks(p)' => \E q \in shown : q[1] = p[1] /\ q[3] = p[2]
               /\ \A q \in shown : /\ <<q[1], q[3]>> \in Promised(request.view, item'.has \cup parts')
                                   /\ q[2] = q[3] \/ Gaps(read)
    <3>1. \A p : Lacks(p)' <=> Lacks(p)
      BY DEF Lacks
    <3>2. /\ \A p \in Promised(request.view, known \cup (Created \ Unstored)) :
                    ~Lacks(p) => \E q \in shown : q[1] = p[1] /\ q[3] = p[2]
          /\ \A q \in shown : /\ <<q[1], q[3]>> \in Promised(request.view, item.has \cup parts)
                              /\ q[2] = q[3] \/ Gaps(read)
      BY <2>2 DEF ViewsInv, ViewsExact, Gaps
    <3>3. Promised(request.view, item.has \cup parts) \subseteq Promised(request.view, item'.has \cup parts')
      BY DEF Promised
    <3>4. QED
      BY <3>1, <3>2, <3>3
  <2>3. QED
    BY <2>1, <2>2 DEF ViewsExact, Promised, Unstored, Gaps, At
<1>9. QED
  BY <1>1, <1>5, <1>6, <1>7, <1>8 DEF ViewsInv

(* So does createTaskInputContent.                                         *)
LEMMA ContentStep ==
  ASSUME ViewsInv, createTaskInputContent
  PROVE  ViewsInv'
<1>1. /\ vdb = "dynamodb" /\ versions # {} /\ parts' = parts \cup {<<"content", 0>>}
      /\ UNCHANGED <<vdb, sent, lost, item, versions, request, step, read, known, shown>>
  BY DEF createTaskInputContent
<1>2. /\ item \in Item /\ item \in versions /\ Kept(item) /\ sent \subseteq Events /\ parts' \subseteq Elsewhere
  BY <1>1 DEF ViewsInv, ViewType, ItemsInv, Elsewhere
<1>3. EntriesInv'
  <2>1. <<"content", 0>>[2] = 0
    OBVIOUS
  <2>2. QED
    BY <1>1, <2>1 DEF ViewsInv, EntriesInv
<1>4. vdb \notin DocumentStores
  BY <1>1 DEF DocumentStores
<1>5. QED
  BY <1>1, <1>2, <1>3, <1>4, GrowStep DEF Kept

(* CreateTask keeps the invariant.                                         *)
LEMMA CreateItemStep ==
  ASSUME ViewsInv, Create
  PROVE  ViewsInv'
<1>1. /\ versions = {} /\ item' = CreatedItem /\ versions' = {CreatedItem}
      /\ parts' = IF vdb = "datastore" THEN {<<"content", 0>>} ELSE {}
      /\ UNCHANGED <<vdb, sent, lost, request, step, read, known, shown>>
      /\ step = "idle" /\ sent = {} /\ vdb \in DocumentStores \cup SplitStores
  BY DEF Create, ViewsInv, ItemsInv, ViewType
<1>2. /\ ~Split("fields") /\ ~Split("flags") /\ ~Split("files") /\ Split("content")
  BY DEF Split
<1>3. createTask = {<<"fields", 0>>, <<"flags", 0>>, <<"files", 0>>}
  BY <1>2 DEF createTask, Created
<1>4. marshalTask = {<<"fields", 0>>, <<"files", 0>>}
  BY <1>2 DEF marshalTask, Created
<1>5. /\ CreatedItem.logs = IF vdb = "postgres" THEN Executor ELSE {}
      /\ CreatedItem.has = CASE vdb = "dynamodb"  -> createTask
                             [] vdb = "datastore" -> marshalTask
                             [] OTHER             -> Created
      /\ CreatedItem = [has |-> CreatedItem.has, logs |-> CreatedItem.logs]
  BY DEF CreatedItem
<1>6. CreatedItem.has \subseteq Created /\ <<"fields", 0>> \in CreatedItem.has
  BY <1>3, <1>4, <1>5 DEF Created
<1>7. CreatedItem \in Item
  BY <1>5, <1>6 DEF Item, Piece
<1>8. Numbered(CreatedItem.logs)
  <2>1. {} = 1..0
    OBVIOUS
  <2>2. QED
    BY <1>5, <2>1, ViewsAssumption DEF Numbered, Executor
<1>9. \A p \in Created : p[1] \notin {"tail", "syslog"} /\ p[2] = 0
  BY DEF Created
<1>10. vdb \in {"dynamodb", "datastore"} => \A p \in CreatedItem.has : p[1] # "content"
  BY <1>3, <1>4, <1>5
<1>11. Created \ Unstored \subseteq CreatedItem.has \cup parts'
  BY <1>1, <1>3, <1>4, <1>5 DEF Created, Unstored
<1>12. Kept(item)'
  BY <1>1, <1>6, <1>8, <1>9, <1>10, <1>11 DEF Kept, Unstored
<1>13. parts' \subseteq Elsewhere
  BY <1>1 DEF Elsewhere
<1>14. ViewType'
  BY <1>1, <1>7, <1>13 DEF ViewsInv, ViewType
<1>15. ItemsInv'
  <2>1. vdb \in DocumentStores \cup {"boltdb"} => parts' = {}
    BY <1>1 DEF DocumentStores
  <2>2. QED
    BY <1>1, <1>12, <2>1 DEF ItemsInv
<1>16. EntriesInv'
  BY <1>1 DEF EntriesInv
<1>17. ReadInv' /\ QueryInv' /\ ViewsExact'
  BY <1>1 DEF ReadInv, Reading, QueryInv, ViewsExact
<1>18. QED
  BY <1>14, <1>15, <1>16, <1>17 DEF ViewsInv

(* Storing an event of an executor adds to the log entries, keeps them     *)
(* numbered where they were, and gives the executor its entry; in DynamoDB *)
(* it appends one.                                                         *)
LEMMA EntriesAre ==
  ASSUME item \in Item, Kept(item), NEW e \in Executor
  PROVE  /\ item.logs \subseteq Entries(item.logs, e) /\ Entries(item.logs, e) \subseteq Executor
         /\ vdb # "boltdb" => Numbered(Entries(item.logs, e))
         /\ vdb # "dynamodb" => e \in Entries(item.logs, e)
         /\ vdb = "dynamodb" => \E n \in Nat : /\ item.logs = 1..n
                                               /\ e \notin item.logs => n + 1 \in Entries(item.logs, e)
<1>1. item.logs \subseteq Executor /\ e \in Nat /\ e <= LastExecutor /\ e >= 1
  BY ViewsAssumption DEF Item, Executor
<1>2. CASE vdb = "boltdb"
  <2>1. Entries(item.logs, e) = item.logs \cup {e}
    BY <1>2 DEF Entries, updateExecutorLogs
  <2>2. QED
    BY <1>1, <1>2, <2>1
<1>3. CASE vdb = "dynamodb"
  <2>1. PICK n \in Nat : item.logs = 1..n
    BY <1>3 DEF Kept, Numbered
  <2>2. Cardinality(item.logs) = n
    BY <2>1, FS_Interval
  <2>3. Entries(item.logs, e) = IF e \in item.logs THEN item.logs ELSE item.logs \cup {n + 1}
    BY <1>3, <2>2 DEF Entries, ensureExecLog
  <2>4. item.logs \cup {n + 1} = 1..(n + 1)
    BY <2>1
  <2>5. e \notin item.logs => n + 1 <= LastExecutor
    BY <1>1, <2>1, ViewsAssumption
  <2>6. Entries(item.logs, e) \subseteq Executor
    BY <1>1, <2>3, <2>5, ViewsAssumption DEF Executor
  <2>7. Numbered(Entries(item.logs, e))
    <3>1. Numbered(1..n)
      BY DEF Numbered
    <3>2. n + 1 \in Nat
      OBVIOUS
    <3>3. Numbered(1..(n + 1))
      BY <3>2 DEF Numbered
    <3>4. QED
      BY <2>1, <2>3, <2>4, <3>1, <3>3
  <2>8. QED
    BY <1>3, <2>1, <2>3, <2>6, <2>7
<1>4. CASE vdb \notin {"boltdb", "dynamodb"}
  <2>1. PICK n \in Nat : item.logs = 1..n
    BY <1>4 DEF Kept, Numbered
  <2>2. Entries(item.logs, e) = item.logs \cup 1..e
    BY <1>4 DEF Entries, GetExecLog
  <2>3. CASE n <= e
    <3>1. Entries(item.logs, e) = 1..e
      <4>1. \A x : x \in (1..n) \cup (1..e) <=> x \in 1..e
        BY <1>1, <2>3
      <4>2. (1..n) \cup (1..e) = 1..e
        BY <4>1
      <4>3. QED
        BY <2>1, <2>2, <4>2
    <3>2. QED
      BY <1>1, <1>4, <2>1, <2>2, <3>1, ViewsAssumption DEF Numbered, Executor
  <2>4. CASE n > e
    <3>1. Entries(item.logs, e) = 1..n /\ e \in 1..n
      <4>1. (\A x : x \in (1..n) \cup (1..e) <=> x \in 1..n) /\ e \in 1..n
        BY <1>1, <2>4
      <4>2. (1..n) \cup (1..e) = 1..n
        BY <4>1
      <4>3. QED
        BY <2>1, <2>2, <4>1, <4>2
    <3>2. QED
      BY <1>1, <1>4, <2>1, <3>1 DEF Numbered
  <2>5. QED
    BY <1>1, <2>3, <2>4
<1>5. QED
  BY <1>2, <1>3, <1>4

(* Without a lost event, the entry that DynamoDB appends is that of the    *)
(* executor.                                                               *)
LEMMA SentInOrder ==
  ASSUME ViewsInv, vdb = "dynamodb", ~lost, versions # {}, NEW p \in Events \ sent, p[1] = "start",
         \A q \in Events \ sent : q[2] # 0 => q[2] >= p[2]
  PROVE  p[2] \in Entries(item.logs, p[2])
<1>1. item \in Item /\ Kept(item) /\ p \in Piece
  BY DEF ViewsInv, ViewType, ItemsInv, Piece
<1>2. p[2] \in Executor /\ p[2] \in Nat /\ p[2] <= LastExecutor /\ p[2] >= 1
  <2>1. p[2] \in Executor
    BY <1>1, PieceIs
  <2>2. QED
    BY <2>1, ViewsAssumption DEF Executor
<1>3. PICK n \in Nat : /\ item.logs = 1..n
                       /\ p[2] \notin item.logs => n + 1 \in Entries(item.logs, p[2])
  BY <1>1, <1>2, EntriesAre
<1>4. CASE p[2] \in item.logs
  BY <1>1, <1>2, <1>4, EntriesAre
<1>5. CASE p[2] \notin item.logs
  <2>1. n < p[2]
    BY <1>2, <1>3, <1>5
  <2>2. ~(n + 1 < p[2])
    <3>1. SUFFICES ASSUME n + 1 < p[2] PROVE FALSE
      OBVIOUS
    <3>2. n + 1 \in Executor
      BY <1>2, <3>1, ViewsAssumption DEF Executor
    <3>3. <<"start", n + 1>> \in Events
      BY <3>2 DEF Events, LogEvents
    <3>4. <<"start", n + 1>>[1] = "start" /\ <<"start", n + 1>>[2] = n + 1
      OBVIOUS
    <3>5. CASE <<"start", n + 1>> \in sent
      <4>1. n + 1 \in item.logs
        BY <3>4, <3>5 DEF ViewsInv, EntriesInv
      <4>2. QED
        BY <1>3, <4>1
    <3>6. CASE <<"start", n + 1>> \notin sent
      <4>1. n + 1 # 0
        OBVIOUS
      <4>2. n + 1 >= p[2]
        BY <3>3, <3>4, <3>6, <4>1
      <4>3. QED
        BY <1>2, <3>1, <4>2
    <3>7. QED
      BY <3>5, <3>6
  <2>3. n + 1 = p[2]
    BY <1>2, <2>1, <2>2
  <2>4. QED
    BY <1>3, <1>5, <2>3
<1>6. QED
  BY <1>4, <1>5

(* A stored event keeps the invariant.                                     *)
LEMMA PutStep ==
  ASSUME ViewsInv, versions # {}, NEW p \in Events \ sent, sent' = sent \cup {p}, PutPiece(p), UNCHANGED lost,
         \A q \in Events \ sent : q[2] # 0 => q[2] >= p[2],
         p[1] # "start" => (p[2] = 0 \/ <<"start", p[2]>> \in sent),
         UNCHANGED <<vdb, request, step, read, known, shown>>
  PROVE  ViewsInv'
<1> DEFINE grows == p[1] \in {"start", "exit"} \/ (p[1] = "tail" /\ vdb \in DocumentStores)
           logs == IF grows THEN Entries(item.logs, p[2]) ELSE item.logs
           elsewhere == vdb \in SplitStores /\ Split(p[1])
           refused == ~elsewhere /\ p[2] # 0 /\ p[2] \notin logs
           new == [has |-> item.has \cup (IF elsewhere \/ refused THEN {} ELSE {p}), logs |-> logs]
<1>1. /\ item' = new
      /\ versions' = {new} \cup (IF vdb = "dynamodb" THEN versions ELSE {})
      /\ parts' = parts \cup (IF elsewhere THEN {p} ELSE {})
  BY DEF PutPiece
<1>2. item \in Item /\ Kept(item) /\ parts \subseteq Elsewhere /\ sent \subseteq Events
  BY DEF ViewsInv, ViewType, ItemsInv
<1>3. p \in Piece /\ p \in Events /\ p[1] # "content"
  <2>1. p \in Piece
    BY DEF Piece
  <2>2. p[1] # "content"
    <3>1. p \in {<<"syslog", 0>>} \/ p \in LogEvents \/ p \in TailEvents
      BY DEF Events
    <3>2. QED
      BY <3>1 DEF LogEvents, TailEvents
  <2>3. QED
    BY <2>1, <2>2
<1>4. (p[1] \in {"start", "exit", "tail"} /\ p[2] \in Executor) \/ (p[1] \notin {"start", "exit", "tail"} /\ p[2] = 0)
  BY <1>3, PieceIs
<1>5. /\ item.logs \subseteq logs /\ logs \subseteq Executor
      /\ vdb # "boltdb" => Numbered(logs)
  <2>1. CASE grows
    <3>1. p[2] \in Executor
      BY <1>4, <2>1
    <3>2. logs = Entries(item.logs, p[2])
      BY <2>1
    <3>3. QED
      BY <1>2, <3>1, <3>2, EntriesAre
  <2>2. CASE ~grows
    <3>1. logs = item.logs
      BY <2>2
    <3>2. QED
      BY <1>2, <3>1 DEF Item, Kept
  <2>3. QED
    BY <2>1, <2>2
<1>6. item' \in Item /\ item'.has = item.has \cup (IF elsewhere \/ refused THEN {} ELSE {p}) /\ item'.logs = logs
  <2>1. item'.has = item.has \cup (IF elsewhere \/ refused THEN {} ELSE {p}) /\ item'.logs = logs
    BY <1>1
  <2>2. item.has \cup (IF elsewhere \/ refused THEN {} ELSE {p}) \subseteq Piece
    BY <1>2, <1>3 DEF Item
  <2>3. new \in Item
    BY <1>5, <2>2 DEF Item
  <2>4. QED
    BY <1>1, <2>1, <2>3
<1>7. ASSUME NEW q \in item'.has PROVE q \in item.has \/ (q = p /\ ~elsewhere /\ ~refused)
  BY <1>6, <1>7
<1>8. ASSUME NEW q \in parts' PROVE q \in parts \/ (q = p /\ elsewhere)
  BY <1>1, <1>8
<1> HIDE DEF new
<1>9. vdb = "boltdb" => \A q \in item'.has : q[2] # 0 => q[2] \in item'.logs
  <2>1. ASSUME vdb = "boltdb", NEW q \in item'.has, q[2] # 0 PROVE q[2] \in logs
    <3>1. CASE q \in item.has
      <4>1. q[2] \in item.logs
        BY <1>2, <2>1, <3>1 DEF Kept
      <4>2. QED
        BY <1>5, <4>1
    <3>2. CASE q = p /\ ~refused /\ ~elsewhere
      BY <2>1, <3>2
    <3>3. QED
      BY <1>7, <3>1, <3>2
  <2>2. QED
    BY <1>6, <2>1
<1>10. vdb \in SplitStores => \A q \in item'.has : q[1] \notin {"tail", "syslog"}
  <2>1. ASSUME vdb \in SplitStores, NEW q \in item'.has PROVE q[1] \notin {"tail", "syslog"}
    <3>1. CASE q \in item.has
      BY <1>2, <2>1, <3>1 DEF Kept
    <3>2. CASE q = p /\ ~elsewhere
      BY <2>1, <3>2 DEF Split
    <3>3. QED
      BY <1>7, <3>1, <3>2
  <2>2. QED
    BY <2>1
<1>11. vdb \in {"dynamodb", "datastore"} => \A q \in item'.has : q[1] # "content"
  <2>1. ASSUME vdb \in {"dynamodb", "datastore"}, NEW q \in item'.has PROVE q[1] # "content"
    <3>1. CASE q \in item.has
      BY <1>2, <2>1, <3>1 DEF Kept
    <3>2. CASE q = p
      BY <1>3, <3>2
    <3>3. QED
      BY <1>7, <3>1, <3>2
  <2>2. QED
    BY <2>1
<1>12. parts' \subseteq Elsewhere
  <2>1. elsewhere => p \in Elsewhere
    <3>1. p \in {<<"syslog", 0>>} \/ p \in LogEvents \/ p \in TailEvents
      BY DEF Events
    <3>2. p \in LogEvents => ~Split(p[1])
      <4>1. p \in LogEvents => p[1] \in {"start", "exit"}
        BY DEF LogEvents
      <4>2. QED
        BY <4>1 DEF Split
    <3>3. QED
      BY <3>1, <3>2 DEF Elsewhere
  <2>2. QED
    BY <1>2, <1>8, <2>1
<1>13. vdb \in DocumentStores => parts' = {}
  <2>1. vdb \in DocumentStores => ~elsewhere /\ parts = {}
    BY DEF ViewsInv, ItemsInv, DocumentStores, SplitStores
  <2>2. QED
    BY <1>8, <2>1
<1>14. vdb = "boltdb" => \A q \in parts' : q[1] # "content"
  BY <1>3, <1>8 DEF ViewsInv, ItemsInv
<1>15. EntriesInv'
  <2>1. SUFFICES ASSUME vdb = "dynamodb", ~lost
                 PROVE  /\ \A q \in sent' : q[1] = "start" => q[2] \in item'.logs
                        /\ \A q \in parts' : q[2] # 0 => q[2] \in item'.logs
    BY DEF EntriesInv
  <2>2. /\ \A q \in sent : q[1] = "start" => q[2] \in item.logs
        /\ \A q \in parts : q[2] # 0 => q[2] \in item.logs
    BY <2>1 DEF ViewsInv, EntriesInv
  <2>3. p[1] = "start" => p[2] \in logs
    <3>1. SUFFICES ASSUME p[1] = "start" PROVE p[2] \in logs
      OBVIOUS
    <3>2. p[2] \in Entries(item.logs, p[2])
      BY <2>1, <3>1, SentInOrder
    <3>3. QED
      BY <3>1, <3>2
  <2>4. elsewhere /\ p[2] # 0 => p[2] \in logs
    <3>1. SUFFICES ASSUME elsewhere, p[2] # 0 PROVE p[2] \in logs
      OBVIOUS
    <3>2. p[1] # "start"
      BY <3>1 DEF Split
    <3>3. <<"start", p[2]>> \in sent
      BY <3>1, <3>2
    <3>4. <<"start", p[2]>>[1] = "start" /\ <<"start", p[2]>>[2] = p[2]
      OBVIOUS
    <3>5. p[2] \in item.logs
      BY <2>2, <3>3, <3>4
    <3>6. QED
      BY <1>5, <3>5
  <2>5. \A q \in sent' : q[1] = "start" => q[2] \in item'.logs
    BY <1>5, <1>6, <2>2, <2>3
  <2>6. ASSUME NEW q \in parts', q[2] # 0 PROVE q[2] \in item'.logs
    BY <1>5, <1>6, <1>8, <2>2, <2>4, <2>6
  <2>7. QED
    BY <2>5, <2>6
<1>16. sent' \subseteq Events /\ item.has \subseteq item'.has /\ item.logs \subseteq item'.logs /\ parts \subseteq parts'
  BY <1>1, <1>2, <1>3, <1>5, <1>6
<1>17. versions' \subseteq versions \cup {item'} /\ item' \in versions'
  BY <1>1
<1>18. vdb # "boltdb" => Numbered(item'.logs)
  BY <1>5, <1>6
<1>19. lost => lost'
  OBVIOUS
<1>20. QED
  BY <1>6, <1>9, <1>10, <1>11, <1>12, <1>13, <1>14, <1>15, <1>16, <1>17, <1>18, <1>19, GrowStep

(* So does a lost one, also when DynamoDB has made its log entry.          *)
LEMMA LoseStep ==
  ASSUME ViewsInv, versions # {}, NEW p \in Events, sent' = sent \cup {p}, lost' = TRUE,
         UNCHANGED <<item, parts, versions>> \/ PutEntryOnly(p),
         UNCHANGED <<vdb, request, step, read, known, shown>>
  PROVE  ViewsInv'
<1>1. item \in Item /\ Kept(item) /\ item \in versions /\ parts \subseteq Elsewhere /\ sent \subseteq Events
  BY DEF ViewsInv, ViewType, ItemsInv
<1>2. /\ vdb \in DocumentStores => parts = {}
      /\ vdb = "boltdb" => \A q \in parts : q[1] # "content"
  BY DEF ViewsInv, ItemsInv
<1>3. EntriesInv' /\ (lost => lost') /\ sent' \subseteq Events
  BY <1>1 DEF EntriesInv
<1>4. CASE UNCHANGED <<item, parts, versions>>
  <2>1. item' = item /\ parts' = parts /\ versions' = versions
    BY <1>4
  <2>2. /\ item' \in Item /\ item.has \subseteq item'.has /\ item.logs \subseteq item'.logs
        /\ parts \subseteq parts' /\ parts' \subseteq Elsewhere
        /\ versions' \subseteq versions \cup {item'} /\ item' \in versions'
    BY <1>1, <2>1
  <2>3. /\ vdb # "boltdb" => Numbered(item'.logs)
        /\ vdb = "boltdb" => \A q \in item'.has : q[2] # 0 => q[2] \in item'.logs
        /\ vdb \in SplitStores => \A q \in item'.has : q[1] \notin {"tail", "syslog"}
        /\ vdb \in {"dynamodb", "datastore"} => \A q \in item'.has : q[1] # "content"
    BY <1>1, <2>1 DEF Kept
  <2>4. /\ vdb \in DocumentStores => parts' = {}
        /\ vdb = "boltdb" => \A q \in parts' : q[1] # "content"
    BY <1>2, <2>1
  <2>5. QED
    BY <1>3, <2>2, <2>3, <2>4, GrowStep
<1>5. CASE PutEntryOnly(p)
  <2>1. /\ vdb = "dynamodb" /\ p \in LogEvents /\ parts' = parts
        /\ item' = [item EXCEPT !.logs = Entries(@, p[2])] /\ versions' = versions \cup {item'}
    BY <1>5 DEF PutEntryOnly
  <2>2. p[2] \in Executor
    BY <2>1 DEF LogEvents
  <2>3. item.logs \subseteq Entries(item.logs, p[2]) /\ Entries(item.logs, p[2]) \subseteq Executor
        /\ Numbered(Entries(item.logs, p[2]))
    BY <1>1, <2>1, <2>2, EntriesAre
  <2>4. item' \in Item /\ item'.has = item.has /\ item'.logs = Entries(item.logs, p[2])
    BY <1>1, <2>1, <2>3 DEF Item
  <2>5. /\ item.has \subseteq item'.has /\ item.logs \subseteq item'.logs
        /\ parts \subseteq parts' /\ parts' \subseteq Elsewhere
        /\ versions' \subseteq versions \cup {item'} /\ item' \in versions'
    BY <1>1, <2>1, <2>3, <2>4
  <2>6. /\ vdb # "boltdb" => Numbered(item'.logs)
        /\ vdb = "boltdb" => \A q \in item'.has : q[2] # 0 => q[2] \in item'.logs
    BY <2>1, <2>3, <2>4
  <2>7. /\ vdb \in SplitStores => \A q \in item'.has : q[1] \notin {"tail", "syslog"}
        /\ vdb \in {"dynamodb", "datastore"} => \A q \in item'.has : q[1] # "content"
    BY <1>1, <2>4 DEF Kept
  <2>8. /\ vdb \in DocumentStores => parts' = {}
        /\ vdb = "boltdb" => \A q \in parts' : q[1] # "content"
    BY <1>2, <2>1
  <2>9. QED
    BY <1>3, <2>4, <2>5, <2>6, <2>7, <2>8, GrowStep
<1>6. QED
  BY <1>4, <1>5

(* So does whatever the worker sends.                                      *)
LEMMA SendStep == ViewsInv /\ Send => ViewsInv'
<1>1. SUFFICES ASSUME ViewsInv, Send PROVE ViewsInv'
  OBVIOUS
<1>2. PICK p \in Events \ sent :
        /\ versions # {}
        /\ \A q \in Events \ sent : q[2] # 0 => q[2] >= p[2]
        /\ p[1] # "start" => (p[2] = 0 \/ <<"start", p[2]>> \in sent)
        /\ sent' = sent \cup {p}
        /\ \/ PutPiece(p) /\ UNCHANGED lost
           \/ lost' = TRUE /\ (UNCHANGED <<item, parts, versions>> \/ PutEntryOnly(p))
        /\ UNCHANGED <<vdb, request, step, read, known, shown>>
  BY <1>1 DEF Send
<1>3. CASE PutPiece(p) /\ UNCHANGED lost
  BY <1>1, <1>2, <1>3, PutStep
<1>4. CASE lost' = TRUE /\ (UNCHANGED <<item, parts, versions>> \/ PutEntryOnly(p))
  BY <1>1, <1>2, <1>4, LoseStep
<1>5. QED
  BY <1>2, <1>3, <1>4

(* The invariant holds before the task is created.                         *)
LEMMA InitViews == ViewsInit => ViewsInv
<1>1. SUFFICES ASSUME ViewsInit PROVE ViewsInv
  OBVIOUS
<1>2. NoItem \in Item
  BY DEF NoItem, Item
<1>3. ViewType
  <2>1. "FULL" \in View
    BY DEF View
  <2>2. request \in [view : View, http : BOOLEAN]
    BY <1>1, <2>1 DEF ViewsInit
  <2>3. QED
    BY <1>1, <1>2, <2>2 DEF ViewsInit, ViewType, Steps
<1>4. ItemsInv /\ EntriesInv
  BY <1>1 DEF ViewsInit, ItemsInv, EntriesInv
<1>5. ReadInv /\ QueryInv /\ ViewsExact
  BY <1>1 DEF ViewsInit, ReadInv, Reading, QueryInv, ViewsExact
<1>6. QED
  BY <1>3, <1>4, <1>5 DEF ViewsInv

(* Steps of others keep the invariant.                                     *)
LEMMA SameViews == ViewsInv /\ UNCHANGED viewVars => ViewsInv'
<1>1. SUFFICES ASSUME ViewsInv, UNCHANGED viewVars PROVE ViewsInv'
  OBVIOUS
<1>2. UNCHANGED <<vdb, sent, lost, item, parts, versions, request, step, read, known, shown>>
  BY <1>1 DEF viewVars
<1>3. \A v : Kept(v)' <=> Kept(v)
  BY <1>2 DEF Kept, Unstored
<1>4. ViewType' /\ ItemsInv' /\ EntriesInv' /\ ReadInv'
  BY <1>1, <1>2, <1>3 DEF ViewsInv, ViewType, ItemsInv, EntriesInv, ReadInv, Reading, Unstored
<1>5. QueryInv'
  BY <1>1, <1>2 DEF ViewsInv, QueryInv, InPlace
<1>6. ViewsExact'
  BY <1>1, <1>2 DEF ViewsInv, ViewsExact, Lacks, Unstored, Promised
<1>7. QED
  BY <1>4, <1>5, <1>6 DEF ViewsInv

(* Every step keeps the invariant.                                         *)
LEMMA ViewsStep == ViewsInv /\ [ViewsNext]_viewVars => ViewsInv'
<1>1. SUFFICES ASSUME ViewsInv, [ViewsNext]_viewVars PROVE ViewsInv'
  OBVIOUS
<1>2. CASE Create
  BY <1>1, <1>2, CreateItemStep
<1>3. CASE createTaskInputContent
  BY <1>1, <1>3, ContentStep
<1>4. CASE Send
  BY <1>1, <1>4, SendStep
<1>5. CASE Ask
  BY <1>1, <1>5, AskStep
<1>6. CASE GetDocument \/ getTaskView
  BY <1>1, <1>6, DocumentStep
<1>7. CASE GetItem
  BY <1>1, <1>7, ItemStep
<1>8. CASE GetMulti
  BY <1>1, <1>8, MultiStep
<1>9. CASE getFullView
  BY <1>1, <1>9, FullStep
<1>10. CASE UNCHANGED viewVars
  BY <1>1, <1>10, SameViews
<1>11. QED
  BY <1>1, <1>2, <1>3, <1>4, <1>5, <1>6, <1>7, <1>8, <1>9, <1>10 DEF ViewsNext

(* An answer to GetTask has exactly the pieces of the view it names, each  *)
(* in the entry of its executor, and GetTask panics only in DynamoDB and   *)
(* for the reasons that ViewsExact names: for any number of executors, any *)
(* events lost, any old item that DynamoDB returns, and events that come   *)
(* in between the reads of GetTask (GetTask of the seven stores,           *)
(* DetectView, TranslateTask).                                             *)
THEOREM ViewsCorrect == ViewsSpec => []ViewsExact
<1>1. ViewsInv => ViewsExact
  BY DEF ViewsInv
<1>2. QED
  BY <1>1, InitViews, ViewsStep, PTL DEF ViewsSpec
=============================================================================

----------------------------- MODULE TaskViews -----------------------------
(***************************************************************************)
(* GetTask of the seven task stores: a worker's events are written, some   *)
(* of them are lost, and a client meanwhile asks for a view of the task,   *)
(* over gRPC or through the HTTP gateway.                                  *)
(*                                                                         *)
(* What a task consists of is a set of pieces <<kind, executor>>.  An      *)
(* answer is a set of <<kind, position, executor>>: the piece of that      *)
(* executor, shown in the log entry at that position.  The pieces of the   *)
(* task itself have the executor and the position 0.                       *)
(***************************************************************************)
EXTENDS Integers, FiniteSets

CONSTANT LastExecutor   \* the executors of the task are 1 .. LastExecutor

ASSUME ViewsAssumption == LastExecutor \in Nat

VARIABLES
  vdb,       \* the store in use
  sent,      \* the events the worker has sent
  lost,      \* whether the write of an event has failed
  item,      \* the task's document or item: its pieces, and its log entries
  parts,     \* the pieces stored elsewhere: content, output tails, system logs
  versions,  \* the items a read may return: in DynamoDB also those of the past
  request,   \* the client's request: its view and the way it comes
  step,      \* where GetTask is
  read,      \* the item GetTask works with
  known,     \* the pieces of that item, and the parts stored when it was read
  shown      \* the answer

viewVars == <<vdb, sent, lost, item, parts, versions, request, step, read, known, shown>>

Executor == 1 .. LastExecutor
NoView == ""
View == {"MINIMAL", "BASIC", "FULL", NoView}
DocumentStores == {"badger", "mongodb", "elastic", "postgres"}
SplitStores == {"boltdb", "dynamodb", "datastore"}

(* What CreateTask stores.  "fields" are the creation time and the         *)
(* descriptive fields, "flags" the executors' ignore_error, "files" the    *)
(* paths that receive the executors' output.                               *)
Created == {<<"fields", 0>>, <<"flags", 0>>, <<"files", 0>>, <<"content", 0>>}
LogEvents == {"start", "exit"} \X Executor
TailEvents == {"tail"} \X Executor
Events == {<<"syslog", 0>>} \cup LogEvents \cup TailEvents

Split(kind) == kind \in {"content", "tail", "syslog"}

NoItem == [has |-> {}, logs |-> {}]

ViewsInit ==
  /\ vdb \in DocumentStores \cup SplitStores
  /\ sent = {} /\ lost = FALSE /\ item = NoItem /\ parts = {} /\ versions = {}
  /\ request = [view |-> "FULL", http |-> FALSE] /\ step = "idle" /\ read = NoItem /\ known = {} /\ shown = {}

ViewsOver ==
  /\ vdb = "badger" /\ sent = Events /\ lost = FALSE /\ item = NoItem /\ parts = {} /\ versions = {}
  /\ request = [view |-> "FULL", http |-> FALSE] /\ step = "over" /\ read = NoItem /\ known = {} /\ shown = {}

-----------------------------------------------------------------------------
(* Writing.                                                                *)

(* createTask of DynamoDB strips the task to its basic view, puts the item *)
(* and then, one call each, the contents of the inputs.  marshalTask of    *)
(* Datastore leaves out the flags and puts all entities in one call; the   *)
(* other stores write the whole task at once.  Postgres allots a log entry *)
(* to each executor beforehand.                                            *)
createTask == {p \in Created : ~Split(p[1])}
marshalTask == {p \in Created : ~Split(p[1]) /\ p[1] # "flags"}
CreatedItem ==
  [has |-> CASE vdb = "dynamodb"  -> createTask
             [] vdb = "datastore" -> marshalTask
             [] OTHER             -> Created,
   logs |-> IF vdb = "postgres" THEN Executor ELSE {}]

Create ==
  /\ versions = {}
  /\ item' = CreatedItem
  /\ parts' = IF vdb = "datastore" THEN {<<"content", 0>>} ELSE {}
  /\ versions' = {CreatedItem}
  /\ UNCHANGED <<vdb, sent, lost, request, step, read, known, shown>>

createTaskInputContent ==
  /\ vdb = "dynamodb" /\ versions # {} /\ <<"content", 0>> \notin parts /\ sent = {}
  /\ parts' = parts \cup {<<"content", 0>>}
  /\ UNCHANGED <<vdb, sent, lost, item, versions, request, step, read, known, shown>>

(* The log entries once the event of an executor is stored.  BoltDB keys   *)
(* an entry by its executor.  ensureExecLog of DynamoDB sets the element   *)
(* of the list at the executor's index, which appends one element when the *)
(* index is past the end; the other stores grow the list up to the index.  *)
GetExecLog(logs, e) == logs \cup 1 .. e
ensureExecLog(logs, e) == IF e \in logs THEN logs ELSE logs \cup {Cardinality(logs) + 1}
updateExecutorLogs(logs, e) == logs \cup {e}
Entries(logs, e) ==
  CASE vdb = "boltdb"   -> updateExecutorLogs(logs, e)
    [] vdb = "dynamodb" -> ensureExecLog(logs, e)
    [] OTHER            -> GetExecLog(logs, e)

(* Where WriteEvent puts a piece.  A write to an element that DynamoDB's   *)
(* list does not have is refused.                                          *)
PutPiece(p) ==
  LET logs == IF p[1] \in {"start", "exit"} \/ (p[1] = "tail" /\ vdb \in DocumentStores)
              THEN Entries(item.logs, p[2])
              ELSE item.logs
      elsewhere == vdb \in SplitStores /\ Split(p[1])
      refused == ~elsewhere /\ p[2] # 0 /\ p[2] \notin logs
      new == [has |-> item.has \cup (IF elsewhere \/ refused THEN {} ELSE {p}), logs |-> logs] IN
  /\ item' = new
  /\ versions' = {new} \cup (IF vdb = "dynamodb" THEN versions ELSE {})
  /\ parts' = parts \cup (IF elsewhere THEN {p} ELSE {})

(* A write of DynamoDB that fails once ensureExecLog has made the entry.   *)
PutEntryOnly(p) ==
  LET new == [item EXCEPT !.logs = Entries(@, p[2])] IN
  /\ vdb = "dynamodb" /\ p \in LogEvents
  /\ item' = new
  /\ versions' = versions \cup {new}
  /\ UNCHANGED parts

(* The events of the executors come in the executors' order.  The worker   *)
(* goes on when a write fails, so that any event may be lost.              *)
Send ==
  \E p \in Events \ sent :
    /\ versions # {}
    /\ vdb = "dynamodb" => <<"content", 0>> \in parts
    /\ \A q \in Events \ sent : q[2] # 0 => q[2] >= p[2]
    /\ p[1] # "start" => (p[2] = 0 \/ <<"start", p[2]>> \in sent)
    /\ sent' = sent \cup {p}
    /\ \/ PutPiece(p) /\ UNCHANGED lost
       \/ lost' = TRUE /\ (UNCHANGED <<item, parts, versions>> \/ PutEntryOnly(p))
    /\ UNCHANGED <<vdb, request, step, read, known, shown>>

-----------------------------------------------------------------------------
(* Reading.                                                                *)

(* Each piece in the entry of its executor.                                *)
InPlace(pieces) == {<<p[1], p[2], p[2]>> : p \in pieces}

GetMinimalView == {}
GetBasicKeepsContent(t) == {p \in t : p[1] \notin {"tail", "syslog"}}
GetBasicView(t) == {p \in t : ~Split(p[1])}

(* loadTaskLogs of BoltDB lists the entries that exist, one after the      *)
(* other.                                                                  *)
At(logs, e) == Cardinality({f \in logs : f <= e})
loadTaskLogs(t) == {<<p[1], At(t.logs, p[2]), p[2]>> : p \in t.has}
loadMinimalTaskView(t) == {}
loadBasicTaskView(t) == {p \in loadTaskLogs(t) : p[1] # "content"}
(* loadFullTaskView reads the output tails by the position of the entry.   *)
loadFullTaskView(t) ==
  loadTaskLogs(t)
    \cup {<<"tail", p[2], p[2]>> : p \in {q \in parts : q[1] = "tail" /\ q[2] <= Cardinality(t.logs)}}
    \cup {<<"syslog", 0, 0>> : p \in {q \in parts : q[1] = "syslog"}}

(* trimUnusedExecutorLogs drops the last entries without a start time.     *)
trimUnusedExecutorLogs(t) ==
  LET started == {p[2] : p \in {q \in t.has : q[1] = "start"}} IN
  {p \in t.has : p[2] = 0 \/ \E e \in started : p[2] <= e}

(* GetTask of a store that keeps the task in one document; an empty view   *)
(* selects the whole document.  Badger and Postgres strip the task they    *)
(* have read ...                                                           *)
Strip(t, view) ==
  CASE view = "MINIMAL" -> GetMinimalView
    [] view = "BASIC"   -> GetBasicView(t)
    [] OTHER            -> t
applyView(t, view) == Strip(t, view)

(* ... and the others name the fields they want.                           *)
basicExclude == {"content", "tail", "syslog"}
getTask(t, view) ==
  {p \in t : view # "MINIMAL" /\ (view = "BASIC" => p[1] \notin basicExclude)}
Project(t, view) == getTask(t, view)

(* The entity of Datastore as a task.                                      *)
unmarshal(t) == InPlace(t.has)

(* DetectView and TranslateTask of the gateway: an answer without a        *)
(* creation time is taken for minimal, one without system logs for basic.  *)
DetectView(t) ==
  CASE <<"fields", 0, 0>> \notin t -> "MINIMAL"
    [] <<"syslog", 0, 0>> \notin t -> "BASIC"
    [] OTHER                       -> "FULL"
TranslateTask(t) ==
  CASE DetectView(t) = "MINIMAL" -> {}
    [] DetectView(t) = "BASIC"   -> {p \in t : p[1] \notin {"content", "files", "syslog"}}
    [] OTHER                     -> t

Answer(t) ==
  /\ shown' = IF request.http THEN TranslateTask(t) ELSE t
  /\ step' = "answered"

(* GetTask changes nothing, so that one request at any time stands for all.*)
Ask ==
  /\ step = "idle" /\ versions # {}
  /\ \E v \in View, h \in BOOLEAN : request' = [view |-> v, http |-> h]
  /\ step' = "get"
  /\ UNCHANGED <<vdb, sent, lost, item, parts, versions, read, known, shown>>

Found(t) ==
  /\ read' = t
  /\ known' = t.has \cup parts

(* One transaction of BoltDB or Badger, one document of the others.        *)
GetDocument ==
  /\ step = "get" /\ vdb \in DocumentStores
  /\ Found(item)
  /\ Answer(CASE vdb = "badger"   -> Strip(InPlace(item.has), request.view)
              [] vdb = "elastic"  -> getTask(InPlace(item.has), request.view)
              [] vdb = "mongodb"  -> Project(InPlace(item.has), request.view)
              [] vdb = "postgres" -> applyView(InPlace(trimUnusedExecutorLogs(item)), request.view))
  /\ UNCHANGED <<vdb, sent, lost, item, parts, versions, request>>

getTaskView ==
  /\ step = "get" /\ vdb = "boltdb"
  /\ Found(item)
  /\ Answer(CASE request.view \in {"MINIMAL", NoView} -> loadMinimalTaskView(item)
              [] request.view = "BASIC"               -> loadBasicTaskView(item)
              [] request.view = "FULL"                -> loadFullTaskView(item))
  /\ UNCHANGED <<vdb, sent, lost, item, parts, versions, request>>

(* The entity of Datastore and the item of DynamoDB come first, the item   *)
(* from an eventually consistent read.  DynamoDB's GetTask dereferences a  *)
(* nil response when the request names no view.                            *)
GetItem ==
  /\ step = "get" /\ vdb \in {"dynamodb", "datastore"}
  /\ \E old \in versions :
       /\ Found(old)
       /\ CASE request.view = "FULL"    -> step' = "parts" /\ UNCHANGED shown
            [] request.view = "MINIMAL" -> Answer(GetMinimalView)
            [] request.view = "BASIC"   -> Answer(InPlace(old.has))
            [] request.view = NoView    -> IF vdb = "datastore"
                                           THEN Answer(unmarshal(old))
                                           ELSE step' = "panicked" /\ UNCHANGED shown
  /\ UNCHANGED <<vdb, sent, lost, item, parts, versions, request>>

(* getFullView of Datastore asks for the parts of the entries it has read, *)
(* those that exist are put in their places.                               *)
viewPartKeys(t) == {p \in {<<"content", 0>>, <<"syslog", 0>>} \cup TailEvents : p[2] \in {0} \cup t.logs}
unmarshalPart(t, found) == t \cup InPlace(found)
GetMulti ==
  /\ step = "parts" /\ vdb = "datastore"
  /\ Answer(unmarshalPart(unmarshal(read), parts \cap viewPartKeys(read)))
  /\ UNCHANGED <<vdb, sent, lost, item, parts, versions, request, read, known>>

(* getFullView of DynamoDB queries the contents, the output tails and the  *)
(* system logs in turn; a tail is put into the entry at its index of the   *)
(* item read before, which panics when there is no such entry.             *)
Query(kind) ==
  LET found == {p \in parts : p[1] = kind} IN
  IF \E p \in found : p[2] # 0 /\ p[2] \notin read.logs
  THEN step' = "panicked" /\ UNCHANGED shown
  ELSE CASE kind = "content" -> shown' = InPlace(read.has \cup found) /\ step' = "tails"
         [] kind = "tail"    -> shown' = shown \cup InPlace(found) /\ step' = "syslogs"
         [] kind = "syslog"  -> Answer(shown \cup InPlace(found))
getFullView ==
  /\ vdb = "dynamodb"
  /\ \/ step = "parts" /\ Query("content")
     \/ step = "tails" /\ Query("tail")
     \/ step = "syslogs" /\ Query("syslog")
     \/ step \in {"parts", "tails", "syslogs"} /\ step' = "failed" /\ shown' = {}
  /\ UNCHANGED <<vdb, sent, lost, item, parts, versions, request, read, known>>

ViewsNext ==
  \/ Create \/ createTaskInputContent \/ Send
  \/ Ask \/ GetDocument \/ getTaskView \/ GetItem \/ GetMulti \/ getFullView

-----------------------------------------------------------------------------
(* What a view promises of a set of pieces.                                *)
Promised(view, pieces) ==
  CASE view = "FULL"    -> pieces
    [] view = "BASIC"   -> {p \in pieces : ~Split(p[1])}
    [] OTHER            -> {}

(* What an answer may lack: an output tail in BoltDB and Datastore whose   *)
(* executor has no log entry, since its other events were lost; an         *)
(* executor that Postgres takes for one that never ran, since its start    *)
(* event was lost; over HTTP the executors' files of a basic view, and in  *)
(* a full view whose task has no system logs also the contents of the      *)
(* inputs.                                                                 *)
Lacks(p) ==
  \/ vdb \in {"boltdb", "datastore"} /\ p[1] = "tail" /\ p[2] > Cardinality(read.logs)
  \/ vdb = "postgres" /\ p[2] # 0 /\ ~\E e \in p[2] .. LastExecutor : <<"start", e>> \in read.has
  \/ request.http /\ p[1] = "files" /\ <<"syslog", 0, 0>> \notin shown
  \/ request.http /\ p[1] = "content" /\ <<"syslog", 0, 0>> \notin shown

(* What CreateTask was given and the store does not have: the flags in     *)
(* Datastore, and in DynamoDB the contents until they are put.             *)
Unstored ==
  CASE vdb = "datastore" -> {<<"flags", 0>>}
    [] vdb = "dynamodb"  -> {<<"content", 0>>}
    [] OTHER             -> {}

(* An answer to GetTask that names a view has exactly the pieces of that   *)
(* view: all that was stored when the item it is based on was read, and    *)
(* nothing that was not stored when it was answered; each executor's       *)
(* pieces are in the entry of that executor, and what CreateTask stores is *)
(* there but for the flags in Datastore, which drops them.  The tests of   *)
(* tests/core/basic_test.go look at the views of a finished task with all  *)
(* its events.  The exceptions are Lacks and, in BoltDB, an executor all   *)
(* of whose events were lost, which moves the entries of the later ones    *)
(* forward.  GetTask panics instead, and the server with it, only in       *)
(* DynamoDB and for one of three reasons: the request names no view, the   *)
(* item was read from a replica that was behind, or an event of the task   *)
(* had been lost.                                                          *)
ViewsExact ==
  /\ step = "answered" /\ request.view # NoView =>
       LET now == item.has \cup parts
           gaps == vdb = "boltdb" /\ \E e \in read.logs : At(read.logs, e) # e IN
       /\ \A p \in Promised(request.view, known \cup (Created \ Unstored)) :
            ~Lacks(p) => \E q \in shown : q[1] = p[1] /\ q[3] = p[2]
       /\ \A q \in shown : /\ <<q[1], q[3]>> \in Promised(request.view, now)
                           /\ q[2] = q[3] \/ gaps
  /\ step = "panicked" =>
       vdb = "dynamodb" /\ (request.view = NoView \/ read # item \/ lost)
=============================================================================

----------------------------- MODULE TaskStores -----------------------------
(***************************************************************************)
(* The task stores other than BoltDB (database/mongodb, postgres, elastic, *)
(* dynamodb, datastore, badger): how WriteEvent creates a task and applies *)
(* concurrent state, log and metadata events to it.  `kind' is the store,  *)
(* chosen at startup by database.Database in the configuration.            *)
(*                                                                         *)
(* A call reads the task, checks the transition and writes conditionally:  *)
(* on the version the task had (MongoDB, Postgres, DynamoDB), on its       *)
(* sequence number (Elastic), or as a transaction over the whole task      *)
(* (Badger, Datastore).  A lost race is retried up to MaxTries times.      *)
(* Calls to the database may fail, before or after they took effect; there *)
(* are at most MaxFaults such failures.  A version stands for the          *)
(* time.Now().UnixNano() or the seqNo the store keeps: writes get distinct *)
(* ones.  Access control is not modelled: every caller may see the task.   *)
(***************************************************************************)
EXTENDS TaskStates, Integers, FiniteSets

CONSTANTS Task, Writer, Kind, MaxTries, MaxFaults

ASSUME StoreConstants ==
  /\ Kind \subseteq {"mongodb", "postgres", "elastic", "dynamodb", "datastore", "badger"}
  /\ MaxTries \in Nat \ {0}
  /\ MaxFaults \in Nat

VARIABLES
  kind,     \* the store in use
  doc,      \* what is stored for each task
  owner,    \* the tasks whose owner is stored
  version,  \* the number of conditional versions of the task so far
  replica,  \* DynamoDB: what an eventually consistent read may still return
  create,   \* how far the TASK_CREATED event of each task has got
  call,     \* the WriteEvent call of each writer
  faults    \* failures of the database so far

vars == <<kind, doc, owner, version, replica, create, call, faults>>

(* The states that workers, backends and users write.                      *)
Target == {"INITIALIZING", "RUNNING"} \cup Terminal

(* A task that is not stored.  In a stored one a writer's system log line  *)
(* and its metadata key stand for themselves.                              *)
NoDoc == [state |-> "UNKNOWN", log |-> {}, metadata |-> {}]

Init ==
  /\ kind \in Kind
  /\ doc = [t \in Task |-> NoDoc]
  /\ owner = {}
  /\ version = [t \in Task |-> 0]
  /\ replica = [t \in Task |-> [state |-> "UNKNOWN", at |-> 0]]
  /\ create = [t \in Task |-> "none"]
  /\ call \in [Writer -> {[op |-> "state", task |-> t, to |-> "CANCELED", step |-> "idle",
                           tries |-> 0, read |-> NoDoc, at |-> 0] : t \in Task}]
  /\ faults = 0

Fault == faults < MaxFaults /\ faults' = faults + 1

(* A new version of the task; a DynamoDB replica still has the old one.    *)
Bump(t) ==
  /\ version' = [version EXCEPT ![t] = @ + 1]
  /\ replica' = IF kind = "dynamodb"
                THEN [replica EXCEPT ![t] = [state |-> doc[t].state, at |-> version[t]]]
                ELSE replica

-----------------------------------------------------------------------------
(* TASK_CREATED.  MongoDB and Elastic store the task first and its owner   *)
(* with a second call; the others store both at once.                      *)

TwoStep == kind \in {"mongodb", "elastic"}

Store(t) ==
  /\ doc' = [doc EXCEPT ![t].state = "QUEUED"]
  /\ Bump(t)
  /\ owner' = IF TwoStep THEN owner ELSE owner \cup {t}

NotStored == UNCHANGED <<doc, version, replica, owner>>

(* A failed insert may have taken effect, and its error is returned.       *)
InsertFails(t) ==
  /\ kind # "badger"
  /\ Fault
  /\ Store(t) \/ NotStored
  /\ create' = [create EXCEPT ![t] = "error"]

(* A Badger commit that failed did not take effect, and is retried.        *)
CommitFails(t) ==
  /\ kind = "badger"
  /\ Fault
  /\ NotStored
  /\ create' \in {create, [create EXCEPT ![t] = "error"]}

CreateTask(t) ==
  /\ create[t] = "none"
  /\ \/ /\ Store(t)
        /\ create' = [create EXCEPT ![t] = IF TwoStep THEN "stored" ELSE "ok"]
        /\ UNCHANGED faults
     \/ InsertFails(t)
     \/ CommitFails(t)
  /\ UNCHANGED <<kind, call>>

(* Elastic sets the owner on condition that nothing has touched the task   *)
(* since it was indexed; its update counts as a version of the task.       *)
SetOwner(t) ==
  /\ owner' = owner \cup {t}
  /\ IF kind = "elastic" THEN Bump(t) ELSE UNCHANGED <<version, replica>>

CreateOwner(t) ==
  /\ create[t] = "stored"
  /\ \/ /\ kind = "elastic" => version[t] = 1
        /\ SetOwner(t)
        /\ create' = [create EXCEPT ![t] = "ok"]
        /\ UNCHANGED faults
     \/ /\ kind = "elastic" /\ version[t] # 1
        /\ create' = [create EXCEPT ![t] = "error"]
        /\ UNCHANGED <<owner, version, replica, faults>>
     \/ /\ Fault
        /\ \/ (kind = "elastic" => version[t] = 1) /\ SetOwner(t)
           \/ UNCHANGED <<owner, version, replica>>
        /\ create' = [create EXCEPT ![t] = "error"]
  /\ UNCHANGED <<kind, doc, call>>

-----------------------------------------------------------------------------
(* The other events.  An event is written for a task that is stored.       *)

Goto(w, step) == call' = [call EXCEPT ![w].step = step]

(* Whether a call on this store reads the task before it writes.           *)
ReadsFirst(op) ==
  \/ op = "state"
  \/ op = "metadata" /\ kind \in {"badger", "datastore"}
  \/ op = "log" /\ kind \in {"badger", "datastore", "postgres"}

WriteEvent(w, op, t, to) ==
  /\ call[w].step = "idle"
  /\ doc[t].state # "UNKNOWN"
  /\ call' = [call EXCEPT ![w] = [op |-> op, task |-> t, to |-> to, tries |-> 0, read |-> NoDoc,
                                  at |-> 0, step |-> IF ReadsFirst(op) THEN "read" ELSE "write"]]
  /\ UNCHANGED <<kind, doc, owner, version, replica, create, faults>>

(* Retrier.Retry: start over, up to MaxTries attempts.                     *)
Again(w) ==
  call' = [call EXCEPT ![w].tries = @ + 1,
                       ![w].step = IF call[w].tries + 1 < MaxTries THEN "read" ELSE "gaveup"]

(* A failed database call: ShouldRetry of each store says whether the      *)
(* event is tried again.  A MongoDB write error is not: the handler reads  *)
(* MatchedCount of the nil result and panics.  Postgres reports a read     *)
(* error as "not found".                                                   *)
MongoRetries(op, step) == kind = "mongodb" /\ op = "state" /\ step = "read"

PostgresRetries(op, step) == kind = "postgres" /\ op = "state" /\ step = "write"

ElasticRetries(op) == kind = "elastic" /\ op = "state"

Retried(op, step) ==
  \/ kind = "badger"
  \/ MongoRetries(op, step)
  \/ PostgresRetries(op, step)
  \/ ElasticRetries(op)

Failed(w) == IF Retried(call[w].op, call[w].step) THEN Again(w) ELSE Goto(w, "error")

(* DynamoDB retries the calls it had no capacity for, and no other error.  *)
Throttled(w) == kind = "dynamodb" /\ call[w].op = "state" /\ Fault /\ Again(w)

(* The states and versions a read may return: DynamoDB's read of the task  *)
(* is eventually consistent.                                               *)
Visible(t) ==
  {[state |-> doc[t].state, at |-> version[t]]} \cup
  (IF kind = "dynamodb" THEN {replica[t]} ELSE {})

(* MongoDB answers with an error for a task that has no owner yet, which   *)
(* is retried.  A task that is not found and an invalid transition are     *)
(* returned at once.                                                       *)
NoOwner(w) == call[w].op = "state" /\ kind = "mongodb" /\ call[w].task \notin owner

Legal(w, from) ==
  /\ from # "UNKNOWN"
  /\ call[w].op = "state" => ValidateTransition(from, call[w].to)

ReadAnswer(w, r) ==
  IF Legal(w, r.state)
  THEN call' = [call EXCEPT ![w].step = "write", ![w].at = r.at,
                            ![w].read = [doc[call[w].task] EXCEPT !.state = r.state]]
  ELSE Goto(w, "error")

Read(w) ==
  /\ call[w].step = "read"
  /\ \/ Fault /\ Failed(w)
     \/ Throttled(w)
     \/ NoOwner(w) /\ Again(w) /\ UNCHANGED faults
     \/ /\ ~NoOwner(w)
        /\ \E r \in Visible(call[w].task) : ReadAnswer(w, r)
        /\ UNCHANGED faults
  /\ UNCHANGED <<kind, doc, owner, version, replica, create>>

(* Mutant: only state events are conditional, so that a whole-task write   *)
(* of another event puts back what it read.                                *)
StaleStateOnly(w) ==
  /\ call[w].op = "state"
  /\ call[w].at # version[call[w].task]

(* Mutant: an unconditional update of the state.                           *)
StaleNever(w) == FALSE

(* Whether something the write of each store is conditional on has changed *)
(* since the read.  MongoDB, Postgres and DynamoDB compare the version     *)
(* when they update the state, and nothing for other events.               *)
Outdated(w) == call[w].at # version[call[w].task]

MongoStale(w) == call[w].op = "state" /\ Outdated(w)

PostgresStale(w) == call[w].op = "state" /\ Outdated(w)

DynamoStale(w) == call[w].op = "state" /\ Outdated(w)

(* Elastic: if_seq_no, for state events only.                              *)
ElasticStale(w) == call[w].op = "state" /\ Outdated(w)

(* Badger's transaction is over the whole task; Datastore keeps the logs   *)
(* in an entity of their own.                                              *)
BadgerStale(w) == Outdated(w)

DatastoreStale(w) ==
  IF call[w].op = "log" THEN call[w].read.log # doc[call[w].task].log ELSE Outdated(w)

Stale(w) ==
  CASE kind = "mongodb" -> MongoStale(w)
    [] kind = "postgres" -> PostgresStale(w)
    [] kind = "dynamodb" -> DynamoStale(w)
    [] kind = "elastic" -> ElasticStale(w)
    [] kind = "badger" -> BadgerStale(w)
    [] kind = "datastore" -> DatastoreStale(w)

(* Mutant: a system log is set rather than appended to.                    *)
PutSetsLog(w) ==
  LET c == call[w]
      d == doc[c.task]
  IN CASE c.op = "state" -> [d EXCEPT !.state = c.to]
       [] c.op = "metadata" -> [d EXCEPT !.metadata = @ \cup {w}]
       [] OTHER -> [d EXCEPT !.log = {w}]

(* What the write leaves in the store: a task with one field updated.      *)
Update(w, d) ==
  CASE call[w].op = "state" -> [d EXCEPT !.state = call[w].to]
    [] call[w].op = "metadata" -> [d EXCEPT !.metadata = @ \cup {w}]
    [] call[w].op = "log" -> [d EXCEPT !.log = @ \cup {w}]

(* MongoDB's $set and $push, Elastic's scripts and DynamoDB's update       *)
(* expressions change the stored task in place.                            *)
MongoPut(w) == Update(w, doc[call[w].task])

ElasticPut(w) == Update(w, doc[call[w].task])

DynamoPut(w) == Update(w, doc[call[w].task])

(* Postgres does, too, except that it writes back the system log it read,  *)
(* and that a metadata entry is not stored: the JSON of the new task omits *)
(* its empty metadata, and jsonb_set adds no key to a missing object.      *)
PostgresPut(w) ==
  LET d == doc[call[w].task]
  IN CASE call[w].op = "state" -> Update(w, d)
       [] call[w].op = "metadata" -> d
       [] call[w].op = "log" -> Update(w, [d EXCEPT !.log = call[w].read.log])

(* Badger puts the whole task it read; Datastore the task or the logs.     *)
BadgerPut(w) == Update(w, call[w].read)

DatastorePut(w) ==
  LET d == doc[call[w].task]
  IN IF call[w].op = "log" THEN Update(w, [d EXCEPT !.log = call[w].read.log])
                           ELSE Update(w, [call[w].read EXCEPT !.log = d.log])

Put(w) ==
  CASE kind = "mongodb" -> MongoPut(w)
    [] kind = "elastic" -> ElasticPut(w)
    [] kind = "dynamodb" -> DynamoPut(w)
    [] kind = "postgres" -> PostgresPut(w)
    [] kind = "badger" -> BadgerPut(w)
    [] kind = "datastore" -> DatastorePut(w)

(* The writes that make a new version of the task.                         *)
NewVersion(op) ==
  \/ op = "state"
  \/ kind \in {"elastic", "badger"}
  \/ kind = "datastore" /\ op = "metadata"

Apply(w) ==
  /\ doc' = [doc EXCEPT ![call[w].task] = Put(w)]
  /\ IF NewVersion(call[w].op) THEN Bump(call[w].task) ELSE UNCHANGED <<version, replica>>

Write(w) ==
  /\ call[w].step = "write"
  /\ \/ /\ ~Stale(w)
        /\ Apply(w)
        /\ Goto(w, "ok")
        /\ UNCHANGED faults
     \/ /\ Stale(w)
        /\ Again(w)
        /\ UNCHANGED <<doc, version, replica, faults>>
     \/ /\ Fault
        /\ \/ ~Stale(w) /\ kind # "badger" /\ Apply(w)
           \/ UNCHANGED <<doc, version, replica>>
        /\ Failed(w)
     \/ Throttled(w) /\ UNCHANGED <<doc, version, replica>>
  /\ UNCHANGED <<kind, owner, create>>

Next ==
  \/ \E t \in Task : CreateTask(t) \/ CreateOwner(t)
  \/ \E w \in Writer :
       \/ \E t \in Task :
            \/ \E to \in Target : WriteEvent(w, "state", t, to)
            \/ \E op \in {"log", "metadata"} : WriteEvent(w, op, t, "CANCELED")
       \/ Read(w)
       \/ Write(w)

Spec == Init /\ [][Next]_vars

-----------------------------------------------------------------------------
L == INSTANCE TaskLifecycle WITH state <- [t \in Task |-> doc[t].state],
                                 Retryable <- {"EXECUTOR_ERROR", "SYSTEM_ERROR"}

(* Whatever the interleaving of the writers, the lost races and the        *)
(* failures of the database, the stored state of a task moves only as      *)
(* ValidateTransition allows from the state it really has: no writer       *)
(* overtakes another between its read and its write.                       *)
ImplementsLifecycle == L!Spec

(* A caller that was told its COMPLETE or CANCELED was written can rely on *)
(* it: the task is in that state and stays there.                          *)
FinalStays ==
  \A w \in Writer :
    call[w].op = "state" /\ call[w].step = "ok" /\ call[w].to \in {"COMPLETE", "CANCELED"} =>
      doc[call[w].task].state = call[w].to

(* A system log line or a metadata entry whose write was acknowledged      *)
(* stays stored, whatever other events are written around it.  Postgres is *)
(* excepted: its system logs are read and written back without a           *)
(* condition, so that a concurrent line is lost, and its metadata updates  *)
(* address an object that was never stored.                                *)
EventsKept ==
  \A w \in Writer :
    LET c == call[w] IN
    c.step = "ok" /\ kind # "postgres" =>
      /\ c.op = "metadata" => w \in doc[c.task].metadata
      /\ c.op = "log" => w \in doc[c.task].log
=============================================================================

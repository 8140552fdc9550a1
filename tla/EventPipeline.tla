--------------------------- MODULE EventPipeline ---------------------------
(***************************************************************************)
(* How an event travels: the writers the server and a worker are built     *)
(* with, the chain of writers each event goes through until one fails, the *)
(* message queue that some of them publish to, and the reader that applies *)
(* the messages to a task it builds (TaskBuilder).                         *)
(*                                                                         *)
(* A worker beside an embedded database sends its events to the server,    *)
(* which has the whole chain of its own, and then to its own writers; a    *)
(* worker of a remote database writes to the database itself.  The topic   *)
(* has one partition, the one NewKafkaReader consumes, and the reader is   *)
(* there before the first event.                                           *)
(***************************************************************************)
EXTENDS TaskStates, Integers, Sequences

CONSTANTS
  LogLevel,    \* Logger.Level: "debug", "info", "warn" or "error"
  MaxLosses    \* how many writes fail, and how many messages come twice

VARIABLES
  wiring,   \* where the database is, and which queue is written to
  dbState,  \* the state in the database
  accepted, \* the state events the database has accepted
  hop,      \* what is left of the chain of each writing process, with its event
  sentBy,   \* what each of them has begun to write, but for logs
  topic,    \* the messages in Kafka's partition, not yet received
  pending,  \* how often each message is in Pub/Sub, not yet acknowledged
  built,    \* the state of the task the reader builds
  losses    \* failures so far

pipeVars == <<wiring, dbState, accepted, hop, sentBy, topic, pending, built, losses>>

Process == {"server", "worker"}
Level == {"debug", "info", "warning", "error"}   \* of the messages

(* An event: a state, the output of an executor, or a system log message.  *)
StateEvent(s) == [type |-> "state", of |-> s]
SystemLog(l) == [type |-> "syslog", of |-> l]
Output == [type |-> "output", of |-> ""]
Logs == {Output} \cup {SystemLog(l) : l \in Level}
TaskCreated == [type |-> "created", of |-> ""]

(* The events that the queue writers do not drop.                          *)
Message == {TaskCreated} \cup {StateEvent(s) : s \in State}
NoMessage == [ev \in Message |-> 0]

PipeInit ==
  /\ wiring \in [embedded : BOOLEAN, queue : {"none", "kafka", "pubsub"}]
  /\ dbState = "UNKNOWN" /\ accepted = {} /\ built = "UNKNOWN" /\ topic = <<>> /\ pending = NoMessage
  /\ hop = [p \in Process |-> <<>>]
  /\ sentBy = [p \in Process |-> {}] /\ losses = 0

PipeOver ==
  /\ wiring = [embedded |-> TRUE, queue |-> "none"]
  /\ dbState = "COMPLETE" /\ accepted = {} /\ built = "UNKNOWN" /\ topic = <<>> /\ pending = NoMessage
  /\ hop = [p \in Process |-> <<>>]
  /\ sentBy = [p \in Process |-> {}] /\ losses = 0

-----------------------------------------------------------------------------
(* NewServer puts the database first and the other event writers after it. *)
QueueWriter == IF wiring.queue = "none" THEN <<>> ELSE <<"publish">>
QueueFirst == QueueWriter \o <<"store">>
ServerWriters == <<"store">> \o QueueWriter

(* NewWorker adds the database, which is the RPC writer when the database  *)
(* is embedded in the server, and then the configured event writers.       *)
(* Service.WriteEvent runs the server's chain within the worker's call; a  *)
(* call that gets lost is a failure of the first writer of that chain, an  *)
(* answer that gets lost one of the writer that follows it.                *)
WorkerWriters == (IF wiring.embedded THEN ServerWriters ELSE <<"store">>) \o QueueWriter

(* SystemLogFilter holds back the system log messages below its level.  It *)
(* looks for "warn", but the messages say "warning" and always pass there. *)
Passes(ev) ==
  ev.type = "syslog" =>
    ev.of \notin CASE LogLevel = "debug" -> {}
                   [] LogLevel = "info"  -> {"debug"}
                   [] LogLevel = "warn"  -> {"debug", "info"}
                   [] LogLevel = "error" -> {"debug", "info", "warn"}

(* What the processes write, in order: the server creates the task, may    *)
(* cancel it, and its reconciler may report a system error; the worker     *)
(* runs it.  Neither stops at a write that fails.                          *)
ServerEvents ==
  IF TaskCreated \notin sentBy["server"]
  THEN {TaskCreated}
  ELSE {StateEvent(s) : s \in {"CANCELED", "SYSTEM_ERROR"}}
WorkerEvents ==
  LET did(s) == StateEvent(s) \in sentBy["worker"]
      ends == {"COMPLETE", "EXECUTOR_ERROR"} IN
  CASE ~did("INITIALIZING") -> {ev \in {StateEvent("INITIALIZING")} : dbState # "UNKNOWN"}
    [] did("INITIALIZING") /\ ~did("RUNNING") -> {StateEvent("RUNNING")} \cup Logs
    [] did("RUNNING") /\ ~\E s \in ends : did(s) -> Logs \cup {StateEvent(s) : s \in ends}
    [] OTHER -> {}

Chain(writers, ev) == [i \in DOMAIN writers |-> [to |-> writers[i], ev |-> ev]]

Begin(p) ==
  /\ hop[p] = <<>>
  /\ \E ev \in (IF p = "server" THEN ServerEvents ELSE WorkerEvents) \ sentBy[p] :
       /\ sentBy' = [sentBy EXCEPT ![p] = @ \cup ({ev} \ Logs)]
       /\ hop' = [hop EXCEPT ![p] =
                    IF ~Passes(ev) THEN <<>> ELSE Chain(IF p = "server" THEN ServerWriters
                                                        ELSE WorkerWriters, ev)]
  /\ UNCHANGED <<wiring, dbState, accepted, topic, pending, built, losses>>

(* MultiWriter goes on to the next writer, or stops at the first error.    *)
GoOn(p) == hop' = [hop EXCEPT ![p] = Tail(@)]
Stop(p) == hop' = [hop EXCEPT ![p] = <<>>]

NextIs(p, w) == hop[p] # <<>> /\ Head(hop[p]).to = w
Carried(p) == Head(hop[p]).ev

(* The database validates a transition and refuses it with an error.       *)
StoreEvent(p) ==
  /\ NextIs(p, "store")
  /\ LET ev == Carried(p) IN
     CASE ev.type = "created" -> dbState' = "QUEUED" /\ UNCHANGED accepted /\ GoOn(p)
       [] ev.type = "state"   -> IF ValidateTransition(dbState, ev.of)
                                 THEN dbState' = ev.of /\ accepted' = accepted \cup {ev} /\ GoOn(p)
                                 ELSE UNCHANGED <<dbState, accepted>> /\ Stop(p)
       [] OTHER               -> UNCHANGED <<dbState, accepted>> /\ GoOn(p)
  /\ UNCHANGED <<wiring, sentBy, topic, pending, built, losses>>

(* The queue writers drop the executors' output and the system logs.       *)
Publish(p) ==
  /\ NextIs(p, "publish")
  /\ IF Carried(p).type \in {"output", "syslog"} THEN UNCHANGED <<topic, pending>>
     ELSE IF wiring.queue = "kafka" THEN topic' = Append(topic, Carried(p)) /\ UNCHANGED pending
     ELSE pending' = [pending EXCEPT ![Carried(p)] = @ + 1] /\ UNCHANGED topic
  /\ GoOn(p)
  /\ UNCHANGED <<wiring, dbState, accepted, sentBy, built, losses>>

(* A writer that fails; Pub/Sub's does not, but what it has buffered may   *)
(* be lost, which looks the same from here.                                *)
Break(p) ==
  /\ hop[p] # <<>> /\ losses < MaxLosses
  /\ losses' = losses + 1
  /\ IF NextIs(p, "publish") /\ wiring.queue = "pubsub" THEN GoOn(p) ELSE Stop(p)
  /\ UNCHANGED <<wiring, dbState, accepted, sentBy, topic, pending, built>>

-----------------------------------------------------------------------------
(* Mutant: from and to are exchanged.                                      *)
BuildBackwards(ev) ==
  IF ev.type = "state" /\ ValidateTransition(ev.of, built)
  THEN built' = ev.of
  ELSE UNCHANGED built

(* TaskBuilder.WriteEvent keeps a valid change of the state.               *)
Build(ev) ==
  IF ev.type = "state" /\ ValidateTransition(built, ev.of)
  THEN built' = ev.of
  ELSE UNCHANGED built

(* Kafka's partition comes in order.                                       *)
ReadKafka ==
  /\ topic # <<>>
  /\ Build(Head(topic)) /\ topic' = Tail(topic)
  /\ UNCHANGED <<wiring, dbState, accepted, hop, sentBy, pending, losses>>

(* Pub/Sub delivers in any order, and again what it thinks not yet         *)
(* acknowledged; the reader acknowledges whatever becomes of the message.  *)
ReadPubSub ==
  /\ \E ev \in Message :
       /\ pending[ev] > 0 /\ Build(ev)
       /\ \/ pending' = [pending EXCEPT ![ev] = @ - 1] /\ UNCHANGED losses
          \/ losses < MaxLosses /\ losses' = losses + 1 /\ UNCHANGED pending
  /\ UNCHANGED <<wiring, dbState, accepted, hop, sentBy, topic>>

PipeNext ==
  \/ \E p \in Process : Begin(p) \/ StoreEvent(p) \/ Publish(p) \/ Break(p)
  \/ ReadKafka \/ ReadPubSub

-----------------------------------------------------------------------------
(* What reaches the queue is in the database: every state event on the     *)
(* topic, or applied to the task built from it, is one that the database   *)
(* accepted.  MultiWriter stops at the first error and the database comes  *)
(* first in every chain.                                                   *)
StreamFollowsStore ==
  /\ \A ev \in {topic[i] : i \in DOMAIN topic} \cup {m \in Message : pending[m] > 0} :
       ev.type = "state" => ev \in accepted
  /\ built # "UNKNOWN" => StateEvent(built) \in accepted

(* Once every event has come through, the task built from the queue is in  *)
(* the state the database has, however the messages of the server and of   *)
(* the worker were mixed, reordered or repeated: the validation of the     *)
(* transitions, in the database and again in TaskBuilder, makes up for it. *)
(* It does not once a system or executor error was stored, since the       *)
(* transitions out of these states make the outcome depend on the order.   *)
BuiltAgrees ==
  (/\ topic = <<>> /\ pending = NoMessage /\ losses = 0 /\ wiring.queue # "none"
   /\ \A p \in Process : hop[p] = <<>>
   /\ \A s \in {"SYSTEM_ERROR", "EXECUTOR_ERROR"} : StateEvent(s) \notin accepted)
    => built = dbState \/ dbState \in {"UNKNOWN", "QUEUED"}
=============================================================================

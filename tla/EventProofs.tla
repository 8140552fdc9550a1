----------------------------- MODULE EventProofs ----------------------------
(***************************************************************************)
(* Proofs about the events of tasks on their way.  TaskStores, the         *)
(* databases other than BoltDB, for any number of tasks, writers, retries  *)
(* and failures: what concurrent writers leave.  EventPipeline, for any    *)
(* log level and any number of failed writes and repeated messages: what a *)
(* reader of the queue may see, and the state of the task it builds.       *)
(* ExecutorLogs, for any number of chunks: the tails that StreamLogTail    *)
(* leaves in the task log.                                                 *)
(***************************************************************************)
EXTENDS TaskStores, EventPipeline, ExecutorLogs, TLAPS

(* The provers to try on a step in turn, with the seconds each may take.   *)
USE ZenonT(5), SMTT(20), ZenonT(20), SMTT(40), SMTT(60)

-----------------------------------------------------------------------------
(* Writers that race.                                                      *)

(* What is stored of a task.                                               *)
Doc == [state : State, log : SUBSET Writer, metadata : SUBSET Writer]

(* A call of WriteEvent, with what it has read.                            *)
Call == [op : {"state", "log", "metadata"}, task : Task, to : Target,
         step : {"idle", "read", "write", "ok", "error", "gaveup"}, tries : Nat, read : Doc, at : Nat]

(* The values the variables take.                                          *)
StoreType ==
  /\ kind \in Kind
  /\ doc \in [Task -> Doc]
  /\ version \in [Task -> Nat]
  /\ replica \in [Task -> [state : State, at : Nat]]
  /\ create \in [Task -> {"none", "stored", "ok", "error"}]
  /\ call \in [Writer -> Call]

(* As far as the condition of a write covers it, the one task is the other.*)
Same(a, b) ==
  /\ a.state = b.state
  /\ kind \in {"badger", "datastore"} => a.metadata = b.metadata
  /\ kind = "badger" => a.log = b.log

(* A task is not stored before its event, and its event is handled once.   *)
NotYet == \A t \in Task : create[t] = "none" => doc[t] = NoDoc

(* What is as new as the task tells its state.                             *)
ReplicaInv ==
  \A t \in Task :
    /\ replica[t].at <= version[t]
    /\ replica[t].at = version[t] => replica[t].state = doc[t].state

(* A call that is about to write what it read first has read a state that  *)
(* admits the new one, and unless the version has moved on since, what it  *)
(* read is what is stored.                                                 *)
Covered(c) ==
  c.step # "idle" =>
    /\ doc[c.task].state # "UNKNOWN"
    /\ c.step = "write" /\ ReadsFirst(c.op) =>
         /\ c.op = "state" => c.read.state # "UNKNOWN" /\ ValidateTransition(c.read.state, c.to)
         /\ c.at <= version[c.task]
         /\ c.at = version[c.task] => Same(c.read, doc[c.task])

(* Every call is covered.                                                  *)
CallInv == \A w \in Writer : Covered(call[w])

(* The inductive invariant.                                                *)
StoreInv == StoreType /\ NotYet /\ ReplicaInv /\ CallInv

(* What an event changes of a task: its state, its system log or its       *)
(* metadata, and nothing else.                                             *)
LEMMA UpdateIs ==
  ASSUME StoreType, NEW w \in Writer, NEW d \in Doc
  PROVE  /\ Update(w, d) \in Doc
         /\ Update(w, d).state = IF call[w].op = "state" THEN call[w].to ELSE d.state
         /\ Update(w, d).log = IF call[w].op = "log" THEN d.log \cup {w} ELSE d.log
         /\ Update(w, d).metadata = IF call[w].op = "metadata" THEN d.metadata \cup {w} ELSE d.metadata
<1>1. call[w].op \in {"state", "log", "metadata"} /\ call[w].to \in State
  BY DEF StoreType, Call, Target, State, Active
<1>2. CASE call[w].op = "state"
  BY <1>1, <1>2 DEF Update, Doc
<1>3. CASE call[w].op = "log"
  BY <1>1, <1>3 DEF Update, Doc
<1>4. CASE call[w].op = "metadata"
  BY <1>1, <1>4 DEF Update, Doc
<1>5. QED
  BY <1>1, <1>2, <1>3, <1>4

(* What an update that goes through leaves.                                *)
Written(w, d, new) ==
  /\ new \in Doc
  /\ new.state = IF call[w].op = "state" THEN call[w].to ELSE d.state
  /\ kind # "postgres" =>
       /\ d.log \subseteq new.log /\ d.metadata \subseteq new.metadata
       /\ call[w].op = "log" => w \in new.log
       /\ call[w].op = "metadata" => w \in new.metadata
  /\ ~NewVersion(call[w].op) => Same(new, d)

(* A write that its condition lets through stores the event's change of    *)
(* what is really there, not of what was read earlier: the conditions of   *)
(* the databases cover what the events replace.                            *)
LEMMA PutIs ==
  ASSUME StoreInv, NEW w \in Writer, call[w].step = "write", ~Stale(w)
  PROVE  Written(w, doc[call[w].task], Put(w))
<1> DEFINE d == doc[call[w].task]
           c == call[w]
<1>1. d \in Doc /\ c.read \in Doc /\ c.op \in {"state", "log", "metadata"} /\ StoreType
  BY DEF StoreInv, StoreType, Call
<1>2. kind \in {"mongodb", "postgres", "elastic", "dynamodb", "datastore", "badger"}
  BY StoreConstants DEF StoreInv, StoreType
<1>3. ReadsFirst(c.op) /\ c.at = version[c.task] => Same(c.read, d)
  BY DEF StoreInv, CallInv, Covered
<1>a. ASSUME Put(w) = Update(w, d) PROVE Written(w, d, Put(w))
  <2>1. /\ Put(w) \in Doc
        /\ Put(w).state = IF c.op = "state" THEN c.to ELSE d.state
        /\ Put(w).log = IF c.op = "log" THEN d.log \cup {w} ELSE d.log
        /\ Put(w).metadata = IF c.op = "metadata" THEN d.metadata \cup {w} ELSE d.metadata
    <3>1. /\ Update(w, d) \in Doc
          /\ Update(w, d).state = IF c.op = "state" THEN c.to ELSE d.state
          /\ Update(w, d).log = IF c.op = "log" THEN d.log \cup {w} ELSE d.log
          /\ Update(w, d).metadata = IF c.op = "metadata" THEN d.metadata \cup {w} ELSE d.metadata
      BY <1>1, UpdateIs
    <3>2. QED
      BY <1>a, <3>1
  <2>2. ASSUME ~NewVersion(c.op) PROVE Same(Put(w), d)
    <3>1. c.op # "state" /\ kind # "badger" /\ (kind = "datastore" => c.op # "metadata")
      BY <2>2 DEF NewVersion
    <3>2. QED
      BY <2>1, <3>1 DEF Same
  <2>3. QED
    BY <2>1, <2>2 DEF Written
<1>4. CASE kind \in {"mongodb", "elastic", "dynamodb"}
  <2>1. Put(w) = Update(w, d)
    BY <1>4 DEF Put, MongoPut, ElasticPut, DynamoPut
  <2>2. QED
    BY <1>a, <2>1
<1>5. CASE kind = "postgres"
  <2>1. CASE c.op = "metadata"
    BY <1>1, <1>5, <2>1 DEF Put, PostgresPut, Written, Same
  <2>2. CASE c.op = "state"
    <3>1. Put(w) = Update(w, d)
      BY <1>5, <2>2 DEF Put, PostgresPut
    <3>2. QED
      BY <1>a, <3>1
  <2>3. CASE c.op = "log"
    <3> DEFINE e == [d EXCEPT !.log = c.read.log]
    <3>1. e \in Doc /\ e.state = d.state
      BY <1>1 DEF Doc
    <3>2. Put(w) = Update(w, e)
      BY <1>5, <2>3 DEF Put, PostgresPut
    <3> HIDE DEF e
    <3>3. Update(w, e) \in Doc /\ Update(w, e).state = IF c.op = "state" THEN c.to ELSE e.state
      BY <1>1, <3>1, UpdateIs
    <3>4. Put(w) \in Doc /\ Put(w).state = d.state
      BY <2>3, <3>1, <3>2, <3>3
    <3>5. Same(Put(w), d)
      BY <1>5, <3>4 DEF Same
    <3>6. QED
      BY <1>5, <2>3, <3>4, <3>5 DEF Written
  <2>4. QED
    BY <1>1, <2>1, <2>2, <2>3
<1>6. CASE kind = "badger"
  <2>1. Put(w) = Update(w, c.read) /\ c.at = version[c.task] /\ ReadsFirst(c.op)
    BY <1>1, <1>6 DEF Put, BadgerPut, Stale, BadgerStale, Outdated, ReadsFirst
  <2>2. c.read.state = d.state /\ c.read.metadata = d.metadata /\ c.read.log = d.log
    BY <1>3, <1>6, <2>1 DEF Same
  <2>3. c.read = d
    BY <1>1, <2>2 DEF Doc
  <2>4. Put(w) = Update(w, d)
    BY <2>1, <2>3
  <2>5. QED
    BY <1>a, <2>4
<1>7. CASE kind = "datastore"
  <2>1. CASE c.op = "log"
    <3>1. c.read.log = d.log
      BY <1>7, <2>1 DEF Stale, DatastoreStale
    <3>2. [d EXCEPT !.log = c.read.log] = d
      BY <1>1, <3>1 DEF Doc
    <3>3. Put(w) = Update(w, d)
      <4>1. Put(w) = DatastorePut(w)
        BY <1>7 DEF Put
      <4>2. DatastorePut(w) = Update(w, [d EXCEPT !.log = c.read.log])
        BY <2>1 DEF DatastorePut
      <4>3. QED
        BY <3>2, <4>1, <4>2
    <3>4. QED
      BY <1>a, <3>3
  <2>2. CASE c.op # "log"
    <3>1. c.at = version[c.task] /\ ReadsFirst(c.op)
      BY <1>1, <1>7, <2>2 DEF Stale, DatastoreStale, Outdated, ReadsFirst
    <3>2. c.read.state = d.state /\ c.read.metadata = d.metadata
      BY <1>3, <1>7, <3>1 DEF Same
    <3>3. [c.read EXCEPT !.log = d.log] = d
      BY <1>1, <3>2 DEF Doc
    <3>4. Put(w) = Update(w, d)
      <4>1. Put(w) = DatastorePut(w)
        BY <1>7 DEF Put
      <4>2. DatastorePut(w) = Update(w, [c.read EXCEPT !.log = d.log])
        BY <2>2 DEF DatastorePut
      <4>3. QED
        BY <3>3, <4>1, <4>2
    <3>5. QED
      BY <1>a, <3>4
  <2>3. QED
    BY <2>1, <2>2
<1>8. QED
  BY <1>2, <1>4, <1>5, <1>6, <1>7

(* What a step may do to the stored tasks.                                 *)
TasksMove ==
  \A t \in Task :
    /\ version[t] <= version'[t]
    /\ version'[t] = version[t] => Same(doc'[t], doc[t])
    /\ doc[t].state # "UNKNOWN" => doc'[t].state # "UNKNOWN"
    /\ kind # "postgres" => doc[t].log \subseteq doc'[t].log /\ doc[t].metadata \subseteq doc'[t].metadata

(* The call c is covered after the step.                                   *)
StillCovered(c) ==
  c.step # "idle" =>
    /\ doc'[c.task].state # "UNKNOWN"
    /\ c.step = "write" /\ ReadsFirst(c.op) =>
         /\ c.op = "state" => c.read.state # "UNKNOWN" /\ ValidateTransition(c.read.state, c.to)
         /\ c.at <= version'[c.task]
         /\ c.at = version'[c.task] => Same(c.read, doc'[c.task])

(* A call that is covered stays so when other tasks, or this one, are      *)
(* written with a new version.                                             *)
LEMMA CallKept ==
  ASSUME StoreType, TasksMove, StoreType', NEW c \in Call, Covered(c)
  PROVE  StillCovered(c)
<1>0. SUFFICES ASSUME c.step # "idle" PROVE StillCovered(c)
  BY DEF StillCovered
<1>1. c.task \in Task /\ c.at \in Nat /\ version[c.task] \in Nat /\ version'[c.task] \in Nat
  BY DEF StoreType, Call
<1>2. doc'[c.task].state # "UNKNOWN"
  BY <1>0, <1>1 DEF Covered, TasksMove
<1>3. ASSUME c.step = "write", ReadsFirst(c.op)
      PROVE  /\ c.op = "state" => c.read.state # "UNKNOWN" /\ ValidateTransition(c.read.state, c.to)
             /\ c.at <= version'[c.task]
             /\ c.at = version'[c.task] => Same(c.read, doc'[c.task])
  <2>1. /\ c.op = "state" => c.read.state # "UNKNOWN" /\ ValidateTransition(c.read.state, c.to)
        /\ c.at <= version[c.task]
        /\ c.at = version[c.task] => Same(c.read, doc[c.task])
    BY <1>3 DEF Covered
  <2>2. version[c.task] <= version'[c.task] /\ (version'[c.task] = version[c.task] => Same(doc'[c.task], doc[c.task]))
    BY <1>1 DEF TasksMove
  <2>3. c.at <= version'[c.task]
    BY <1>1, <2>1, <2>2
  <2>4. ASSUME c.at = version'[c.task] PROVE Same(c.read, doc'[c.task])
    <3>1. Same(c.read, doc[c.task]) /\ Same(doc'[c.task], doc[c.task])
      BY <1>1, <2>1, <2>2, <2>4
    <3>2. QED
      BY <3>1 DEF Same
  <2>5. QED
    BY <2>1, <2>3, <2>4
<1>4. QED
  BY <1>2, <1>3 DEF StillCovered

(* The invariant of the calls from that of each.                           *)
LEMMA AllCovered ==
  ASSUME UNCHANGED kind, \A u \in Writer : StillCovered(call'[u])
  PROVE  CallInv'
BY DEF CallInv, Covered, StillCovered, ReadsFirst, Same

(* A call that is over, or that starts over, is covered by what it was.    *)
LEMMA NotWriting ==
  ASSUME StoreType, TasksMove, NEW c \in Call, c.step # "idle", Covered(c), NEW d \in Call, d.task = c.task, d.step # "write"
  PROVE  StillCovered(d)
BY DEF Covered, StillCovered, TasksMove, Call

(* A step in which no writer takes part, or one that is not about to write.*)
LEMMA CallsKept ==
  ASSUME StoreInv, TasksMove, StoreType', UNCHANGED kind,
         \A u \in Writer : \/ call'[u] = call[u]
                           \/ call[u].step # "idle" /\ call'[u].task = call[u].task /\ call'[u].step # "write"
  PROVE  CallInv'
<1>1. SUFFICES ASSUME NEW u \in Writer PROVE StillCovered(call'[u])
  BY AllCovered
<1>2. call[u] \in Call /\ call'[u] \in Call /\ Covered(call[u]) /\ StoreType
  BY DEF StoreInv, StoreType, CallInv
<1>3. CASE call'[u] = call[u]
  BY <1>2, <1>3, CallKept
<1>4. CASE call[u].step # "idle" /\ call'[u].task = call[u].task /\ call'[u].step # "write"
  BY <1>2, <1>4, NotWriting
<1>5. QED
  BY <1>3, <1>4

(* What a step may do to the state of one task; it leaves the others.      *)
StateMove(t) ==
  \/ doc'[t].state = doc[t].state
  \/ doc[t].state = "UNKNOWN" /\ doc'[t].state = "QUEUED"
  \/ doc[t].state # "UNKNOWN" /\ doc'[t].state \in Target /\ ValidateTransition(doc[t].state, doc'[t].state)

(* A step writes at most one task.                                         *)
OneMoves == \E t \in Task : StateMove(t) /\ \A u \in Task \ {t} : doc'[u] = doc[u]

(* What every step does: it keeps the invariant, and at most one task      *)
(* moves, as its events allow.                                             *)
GoodStep == StoreInv' /\ TasksMove /\ OneMoves

(* A write gives the task it writes a new version, where the database has  *)
(* versions.                                                               *)
LEMMA BumpStep ==
  ASSUME StoreInv, NEW t \in Task, Bump(t), \A u \in Task \ {t} : doc'[u] = doc[u]
  PROVE  /\ version' \in [Task -> Nat]
         /\ replica' \in [Task -> [state : State, at : Nat]]
         /\ ReplicaInv'
         /\ \A u \in Task : version[u] <= version'[u] /\ (version'[u] = version[u] => u # t)
<1>1. version \in [Task -> Nat] /\ replica \in [Task -> [state : State, at : Nat]] /\ doc[t].state \in State
  BY DEF StoreInv, StoreType, Doc
<1>2. version' = [version EXCEPT ![t] = @ + 1]
      /\ replica' \in {replica, [replica EXCEPT ![t] = [state |-> doc[t].state, at |-> version[t]]]}
  BY DEF Bump
<1>3. version' \in [Task -> Nat] /\ replica' \in [Task -> [state : State, at : Nat]]
  BY <1>1, <1>2
<1>4. \A u \in Task : version[u] <= version'[u] /\ (version'[u] = version[u] => u # t)
  BY <1>1, <1>2
<1>5. ASSUME NEW u \in Task
      PROVE  replica'[u].at <= version'[u] /\ (replica'[u].at = version'[u] => replica'[u].state = doc'[u].state)
  <2>1. replica[u].at <= version[u] /\ (replica[u].at = version[u] => replica[u].state = doc[u].state)
    BY DEF StoreInv, ReplicaInv
  <2>2. CASE u = t
    <3>1. replica'[t].at \in {replica[t].at, version[t]} /\ version'[t] = version[t] + 1
      BY <1>1, <1>2
    <3>2. replica[t].at \in Nat /\ version[t] \in Nat
      BY <1>1
    <3>3. QED
      BY <2>1, <2>2, <3>1, <3>2
  <2>3. CASE u # t
    BY <1>1, <1>2, <2>1, <2>3
  <2>4. QED
    BY <2>2, <2>3
<1>6. QED
  BY <1>3, <1>4, <1>5 DEF ReplicaInv

(* A step that writes nothing is good.                                     *)
LEMMA QuietStep ==
  ASSUME StoreInv, UNCHANGED <<kind, doc, version, replica>>, Task # {},
         create' \in [Task -> {"none", "stored", "ok", "error"}],
         \A t \in Task : create'[t] = "none" => create[t] = "none",
         call' \in [Writer -> Call],
         \A u \in Writer : \/ call'[u] = call[u]
                           \/ call[u].step # "idle" /\ call'[u].task = call[u].task /\ call'[u].step # "write"
  PROVE  GoodStep
<1>1. StoreType' /\ NotYet' /\ ReplicaInv'
  BY DEF StoreInv, StoreType, NotYet, ReplicaInv
<1>2. TasksMove
  BY DEF StoreInv, StoreType, TasksMove, Same
<1>3. CallInv'
  BY <1>1, <1>2, CallsKept
<1>4. OneMoves
  BY DEF OneMoves, StateMove
<1>5. QED
  BY <1>1, <1>2, <1>3, <1>4 DEF GoodStep, StoreInv

(* Storing a new task is good.                                             *)
LEMMA StoreStep ==
  ASSUME StoreInv, NEW t \in Task, create[t] = "none", Store(t), UNCHANGED <<kind, call>>,
         create' \in [Task -> {"none", "stored", "ok", "error"}], create'[t] # "none",
         \A u \in Task : create'[u] = "none" => create[u] = "none"
  PROVE  GoodStep
<1>1. doc \in [Task -> Doc] /\ doc[t] = NoDoc
  BY DEF StoreInv, StoreType, NotYet
<1>2. doc' = [doc EXCEPT ![t].state = "QUEUED"] /\ Bump(t)
  BY DEF Store
<1>3. doc' \in [Task -> Doc] /\ \A u \in Task \ {t} : doc'[u] = doc[u]
  BY <1>1, <1>2 DEF Doc, State, Active
<1>4. doc'[t].state = "QUEUED" /\ doc'[t].log = doc[t].log /\ doc'[t].metadata = doc[t].metadata
  BY <1>1, <1>2 DEF Doc
<1>5. /\ version' \in [Task -> Nat]
      /\ replica' \in [Task -> [state : State, at : Nat]]
      /\ ReplicaInv'
      /\ \A u \in Task : version[u] <= version'[u] /\ (version'[u] = version[u] => u # t)
  BY <1>2, <1>3, BumpStep
<1>6. StoreType' /\ NotYet'
  BY <1>3, <1>5 DEF StoreInv, StoreType, NotYet
<1>7. TasksMove
  BY <1>3, <1>4, <1>5 DEF TasksMove, Same
<1>8. CallInv'
  BY <1>6, <1>7, CallsKept
<1>9. OneMoves
  BY <1>1, <1>3, <1>4 DEF OneMoves, StateMove, NoDoc
<1>10. QED
  BY <1>5, <1>6, <1>7, <1>8, <1>9 DEF GoodStep, StoreInv

(* CreateTask is good.                                                     *)
LEMMA CreateTaskStep ==
  ASSUME StoreInv, NEW t \in Task, CreateTask(t)
  PROVE  GoodStep
<1>1. /\ create[t] = "none" /\ UNCHANGED <<kind, call>>
      /\ \/ create' = create \/ create' = [create EXCEPT ![t] = "error"]
         \/ create' = [create EXCEPT ![t] = "stored"] \/ create' = [create EXCEPT ![t] = "ok"]
      /\ \/ Store(t) /\ create' # create
         \/ NotStored
  BY DEF CreateTask, InsertFails, CommitFails, StoreInv, StoreType
<1>2. create' \in [Task -> {"none", "stored", "ok", "error"}] /\ \A u \in Task : create'[u] = "none" => create[u] = "none"
  BY <1>1 DEF StoreInv, StoreType
<1>3. CASE Store(t) /\ create' # create
  BY <1>1, <1>2, <1>3, StoreStep DEF StoreInv, StoreType
<1>4. CASE NotStored
  BY <1>1, <1>2, <1>4, QuietStep DEF NotStored, StoreInv, StoreType
<1>5. QED
  BY <1>1, <1>3, <1>4

(* So is the second write of a creation.                                   *)
LEMMA CreateOwnerStep ==
  ASSUME StoreInv, NEW t \in Task, CreateOwner(t)
  PROVE  GoodStep
<1>1. /\ create[t] = "stored" /\ UNCHANGED <<kind, doc, call>>
      /\ \/ create' = [create EXCEPT ![t] = "error"] \/ create' = [create EXCEPT ![t] = "ok"]
      /\ Bump(t) \/ UNCHANGED <<version, replica>>
  BY DEF CreateOwner, SetOwner
<1>2. create' \in [Task -> {"none", "stored", "ok", "error"}] /\ \A u \in Task : create'[u] = "none" => create[u] = "none"
  BY <1>1 DEF StoreInv, StoreType
<1>3. CASE UNCHANGED <<version, replica>>
  BY <1>1, <1>2, <1>3, QuietStep DEF StoreInv, StoreType
<1>4. CASE Bump(t)
  <2>1. /\ version' \in [Task -> Nat]
        /\ replica' \in [Task -> [state : State, at : Nat]]
        /\ ReplicaInv'
        /\ \A u \in Task : version[u] <= version'[u]
    BY <1>1, <1>4, BumpStep
  <2>2. StoreType' /\ NotYet'
    BY <1>1, <1>2, <2>1 DEF StoreInv, StoreType, NotYet
  <2>3. TasksMove /\ OneMoves
    BY <1>1, <2>1 DEF TasksMove, Same, OneMoves, StateMove
  <2>4. CallInv'
    BY <1>1, <2>2, <2>3, CallsKept
  <2>5. QED
    BY <2>1, <2>2, <2>3, <2>4 DEF GoodStep, StoreInv
<1>5. QED
  BY <1>1, <1>3, <1>4

(* The retrier starts over, or gives up.                                   *)
LEMMA AgainStep ==
  ASSUME StoreInv, NEW w \in Writer, call[w].step # "idle",
         Again(w) \/ \E s \in {"ok", "error"} : Goto(w, s)
  PROVE  /\ call' \in [Writer -> Call]
         /\ \A u \in Writer : \/ call'[u] = call[u]
                              \/ call[u].step # "idle" /\ call'[u].task = call[u].task /\ call'[u].step # "write"
<1>1. call \in [Writer -> Call]
  BY DEF StoreInv, StoreType
<1>2. CASE Again(w)
  <2>1. call[w].tries + 1 \in Nat
    BY <1>1 DEF Call
  <2>2. PICK n \in Nat, s \in {"read", "gaveup"} : call' = [call EXCEPT ![w].tries = n, ![w].step = s]
    BY <1>2, <2>1 DEF Again
  <2> DEFINE new == [call[w] EXCEPT !.tries = n, !.step = s]
  <2>3. new \in Call /\ new.task = call[w].task /\ new.step # "write"
    BY <1>1, <2>2 DEF Call
  <2>4. call' = [call EXCEPT ![w] = new]
    BY <1>1, <2>2
  <2> HIDE DEF new
  <2>5. QED
    BY <1>1, <2>3, <2>4
<1>3. CASE \E s \in {"ok", "error"} : Goto(w, s)
  BY <1>1, <1>3 DEF Goto, Call
<1>4. QED
  BY <1>2, <1>3

(* So is the begin of a WriteEvent.                                        *)
LEMMA WriteEventStep ==
  ASSUME StoreInv, NEW w \in Writer, NEW op \in {"state", "log", "metadata"}, NEW t \in Task, NEW to \in Target,
         WriteEvent(w, op, t, to)
  PROVE  GoodStep
<1> DEFINE c == [op |-> op, task |-> t, to |-> to, tries |-> 0, read |-> NoDoc,
                 at |-> 0, step |-> IF ReadsFirst(op) THEN "read" ELSE "write"]
<1>1. UNCHANGED <<kind, doc, owner, version, replica, create>> /\ doc[t].state # "UNKNOWN"
      /\ call' = [call EXCEPT ![w] = c]
  BY DEF WriteEvent
<1>2. c \in Call
  BY DEF Call, NoDoc, Doc, State
<1>3. StoreType' /\ NotYet' /\ ReplicaInv'
  BY <1>1, <1>2 DEF StoreInv, StoreType, NotYet, ReplicaInv
<1>4. TasksMove /\ OneMoves
  BY <1>1 DEF StoreInv, StoreType, TasksMove, Same, OneMoves, StateMove
<1>5. StillCovered(c)
  BY <1>1 DEF StillCovered
<1>6. \A u \in Writer : StillCovered(call'[u])
  <2>1. SUFFICES ASSUME NEW u \in Writer PROVE StillCovered(call'[u])
    OBVIOUS
  <2>2. call[u] \in Call /\ Covered(call[u]) /\ StoreType /\ call \in [Writer -> Call]
    BY DEF StoreInv, StoreType, CallInv
  <2>3. CASE u = w
    BY <1>1, <1>5, <2>2, <2>3
  <2>4. CASE u # w
    <3>1. call'[u] = call[u]
      BY <1>1, <2>2, <2>4
    <3>2. StillCovered(call[u])
      BY <1>3, <1>4, <2>2, CallKept
    <3>3. QED
      BY <3>1, <3>2
  <2>5. QED
    BY <2>3, <2>4
<1>7. CallInv'
  BY <1>1, <1>6, AllCovered
<1>8. QED
  BY <1>3, <1>4, <1>7 DEF GoodStep, StoreInv

(* So is the read before a write.                                          *)
LEMMA ReadStep ==
  ASSUME StoreInv, NEW w \in Writer, Read(w)
  PROVE  GoodStep
<1>1. UNCHANGED <<kind, doc, version, replica, create>> /\ call[w].step = "read"
  BY DEF Read
<1>2. call \in [Writer -> Call] /\ call[w].task \in Task /\ call[w] \in Call
  BY DEF StoreInv, StoreType, Call
<1>3. CASE Again(w) \/ Goto(w, "error")
  <2>1. call' \in [Writer -> Call]
        /\ \A u \in Writer : \/ call'[u] = call[u]
                             \/ call[u].step # "idle" /\ call'[u].task = call[u].task /\ call'[u].step # "write"
    BY <1>1, <1>3, AgainStep
  <2>2. QED
    BY <1>1, <1>2, <2>1, QuietStep DEF StoreInv, StoreType
<1>4. ASSUME NEW r \in Visible(call[w].task), Legal(w, r.state),
             call' = [call EXCEPT ![w].step = "write", ![w].at = r.at,
                                  ![w].read = [doc[call[w].task] EXCEPT !.state = r.state]]
      PROVE  GoodStep
  <2> DEFINE t == call[w].task
             d == [doc[t] EXCEPT !.state = r.state]
  <2>1. r \in [state : State, at : Nat] /\ r.at <= version[t] /\ (r.at = version[t] => r.state = doc[t].state)
    BY <1>2, <1>4 DEF Visible, StoreInv, StoreType, ReplicaInv, Doc
  <2>2. d \in Doc /\ d.state = r.state /\ d.log = doc[t].log /\ d.metadata = doc[t].metadata
    <3>1. doc[t] \in Doc /\ r.state \in State
      BY <1>2, <2>1 DEF StoreInv, StoreType
    <3>2. QED
      BY <3>1 DEF Doc
  <2>3. /\ call' \in [Writer -> Call]
        /\ \A u \in Writer \ {w} : call'[u] = call[u]
        /\ call'[w].op = call[w].op /\ call'[w].to = call[w].to /\ call'[w].task = t
        /\ call'[w].at = r.at /\ call'[w].read = d /\ call'[w].step = "write"
    BY <1>2, <1>4, <2>1, <2>2 DEF Call
  <2>4. StoreType' /\ NotYet' /\ ReplicaInv'
    BY <1>1, <2>3 DEF StoreInv, StoreType, NotYet, ReplicaInv
  <2>5. TasksMove /\ OneMoves
    BY <1>1, <1>2 DEF StoreInv, StoreType, TasksMove, Same, OneMoves, StateMove
  <2>6. doc[t].state # "UNKNOWN"
    BY <1>1 DEF StoreInv, CallInv, Covered
  <2>7. StillCovered(call'[w])
    BY <1>1, <1>4, <2>1, <2>2, <2>3, <2>6 DEF StillCovered, Same, Legal
  <2>8. \A u \in Writer : StillCovered(call'[u])
    <3>1. SUFFICES ASSUME NEW u \in Writer, u # w PROVE StillCovered(call'[u])
      BY <2>7
    <3>2. call[u] \in Call /\ Covered(call[u]) /\ StoreType
      BY DEF StoreInv, StoreType, CallInv
    <3>3. StillCovered(call[u])
      BY <2>4, <2>5, <3>2, CallKept
    <3>4. QED
      BY <2>3, <3>1, <3>3
  <2>9. CallInv'
    BY <1>1, <2>8, AllCovered
  <2>10. QED
    BY <2>4, <2>5, <2>9 DEF GoodStep, StoreInv
<1>5. QED
  BY <1>3, <1>4 DEF Read, Failed, Throttled, ReadAnswer

(* So is the write itself, whether the caller learns of it or not.         *)
LEMMA ApplyStep ==
  ASSUME StoreInv, NEW w \in Writer, call[w].step = "write", ~Stale(w), Apply(w), UNCHANGED <<kind, create>>,
         Again(w) \/ \E s \in {"ok", "error"} : Goto(w, s)
  PROVE  GoodStep
<1> DEFINE t == call[w].task
<1>1. call[w] \in Call /\ t \in Task /\ Covered(call[w]) /\ doc \in [Task -> Doc]
  BY DEF StoreInv, StoreType, CallInv, Call
<1>2. Written(w, doc[t], Put(w))
  BY PutIs
<1>3. doc' = [doc EXCEPT ![t] = Put(w)]
  BY DEF Apply
<1>4. doc' \in [Task -> Doc] /\ doc'[t] = Put(w) /\ \A u \in Task \ {t} : doc'[u] = doc[u]
  BY <1>1, <1>2, <1>3 DEF Written
<1>5. call' \in [Writer -> Call]
      /\ \A u \in Writer : \/ call'[u] = call[u]
                           \/ call[u].step # "idle" /\ call'[u].task = call[u].task /\ call'[u].step # "write"
  BY AgainStep
<1>6. doc[t].state # "UNKNOWN" /\ (call[w].op = "state" => ValidateTransition(doc[t].state, call[w].to))
  <2>1. kind \in {"mongodb", "postgres", "elastic", "dynamodb", "datastore", "badger"}
    BY StoreConstants DEF StoreInv, StoreType
  <2>2. call[w].op = "state" => call[w].at = version[t]
    <3>1. ASSUME call[w].op = "state", call[w].at # version[t] PROVE Stale(w)
      BY <2>1, <3>1 DEF Stale, MongoStale, PostgresStale, DynamoStale, ElasticStale, BadgerStale, DatastoreStale, Outdated
    <3>2. QED
      BY <3>1
  <2>3. QED
    BY <1>1, <2>2 DEF Covered, ReadsFirst, Same
<1>7. StateMove(t)
  BY <1>1, <1>2, <1>4, <1>6 DEF StateMove, Written, Call
<1>8. doc'[t].state # "UNKNOWN"
  BY <1>1, <1>2, <1>4, <1>6 DEF Written, Call, Target, Terminal
<1>9. /\ version' \in [Task -> Nat]
      /\ replica' \in [Task -> [state : State, at : Nat]]
      /\ ReplicaInv'
      /\ \A u \in Task : version[u] <= version'[u] /\ (version'[u] = version[u] => u # t \/ Same(doc'[t], doc[t]))
  <2>1. CASE NewVersion(call[w].op)
    BY <1>1, <1>4, <2>1, BumpStep DEF Apply
  <2>2. CASE ~NewVersion(call[w].op)
    <3>1. UNCHANGED <<version, replica>> /\ Same(doc'[t], doc[t])
      BY <1>2, <1>4, <2>2 DEF Apply, Written
    <3>2. QED
      BY <1>4, <3>1 DEF StoreInv, StoreType, ReplicaInv, Same
  <2>3. QED
    BY <2>1, <2>2
<1>10. StoreType' /\ NotYet'
  BY <1>4, <1>5, <1>6, <1>9 DEF StoreInv, StoreType, NotYet, NoDoc
<1>11. TasksMove
  BY <1>2, <1>4, <1>8, <1>9 DEF TasksMove, Written, Same
<1>12. CallInv'
  BY <1>5, <1>10, <1>11, CallsKept
<1>13. OneMoves
  BY <1>1, <1>4, <1>7 DEF OneMoves
<1>14. QED
  BY <1>9, <1>10, <1>11, <1>12, <1>13 DEF GoodStep, StoreInv

(* So is every outcome of a write.                                         *)
LEMMA WriteStep ==
  ASSUME StoreInv, NEW w \in Writer, Write(w)
  PROVE  GoodStep
<1>1. call[w].step = "write" /\ UNCHANGED <<kind, create>> /\ (Again(w) \/ \E s \in {"ok", "error"} : Goto(w, s))
  BY DEF Write, Failed, Throttled
<1>2. CASE ~Stale(w) /\ Apply(w)
  BY <1>1, <1>2, ApplyStep
<1>3. CASE UNCHANGED <<doc, version, replica>>
  BY <1>1, <1>3, AgainStep, QuietStep DEF StoreInv, StoreType, Call
<1>4. QED
  BY <1>2, <1>3 DEF Write

(* Every step is good.                                                     *)
LEMMA EventsStep ==
  ASSUME StoreInv, [Next]_vars
  PROVE  GoodStep \/ UNCHANGED vars
<1>1. "CANCELED" \in Target
  BY DEF Target, Terminal
<1>2. QED
  BY <1>1, CreateTaskStep, CreateOwnerStep, WriteEventStep, ReadStep, WriteStep DEF Next

(* The invariant holds at first.                                           *)
LEMMA StoreInitInv ==
  ASSUME Init
  PROVE  StoreInv
<1>1. NoDoc \in Doc
  BY DEF NoDoc, Doc, State
<1>2. StoreType
  BY <1>1 DEF Init, StoreType, Call, State, Target, Terminal
<1>3. NotYet /\ ReplicaInv /\ CallInv
  BY DEF Init, NotYet, ReplicaInv, CallInv, Covered, NoDoc
<1>4. QED
  BY <1>2, <1>3 DEF StoreInv

(* Every step keeps it.                                                    *)
LEMMA StoreInvStep ==
  ASSUME StoreInv, [Next]_vars
  PROVE  StoreInv'
<1>1. CASE UNCHANGED vars
  BY <1>1 DEF vars, StoreInv, StoreType, NotYet, ReplicaInv, CallInv, Covered, Same, ReadsFirst
<1>2. QED
  BY <1>1, EventsStep DEF GoodStep

(* In every database, the stored state of each task follows the life cycle *)
(* of TaskLifecycle, whatever writers race and whichever writes fail or    *)
(* are repeated: each step maps to a step of the abstract specification or *)
(* to none (WriteEvent of badger, datastore, dynamodb, elastic, mongodb    *)
(* and postgres).                                                          *)
THEOREM StoresImplementLifecycle == Spec => ImplementsLifecycle
<1>1. Init => L!Init
  <2>1. Init => doc = [t \in Task |-> NoDoc]
    BY DEF Init
  <2>2. QED
    BY <2>1 DEF L!Init, NoDoc
<1>2. ASSUME StoreInv, [Next]_vars PROVE [L!Next]_([t \in Task |-> doc[t].state])
  <2>1. CASE UNCHANGED vars
    BY <2>1 DEF vars
  <2>2. CASE OneMoves
    <3> DEFINE st == [t \in Task |-> doc[t].state]
    <3>1. PICK t \in Task : StateMove(t) /\ \A u \in Task \ {t} : doc'[u] = doc[u]
      BY <2>2 DEF OneMoves
    <3>2. st' = [st EXCEPT ![t] = doc'[t].state]
      BY <3>1
    <3>3. CASE doc'[t].state = doc[t].state
      BY <3>2, <3>3
    <3>4. CASE doc[t].state = "UNKNOWN" /\ doc'[t].state = "QUEUED"
      BY <3>2, <3>4 DEF L!Next, L!Create, L!Move
    <3>5. CASE doc[t].state # "UNKNOWN" /\ doc'[t].state \in Target /\ ValidateTransition(doc[t].state, doc'[t].state)
      <4>1. doc[t].state \in State
        BY <1>2 DEF StoreInv, StoreType, Doc
      <4>2. L!Start(t) \/ L!Execute(t) \/ L!Finish(t) \/ L!Retry(t) \/ doc'[t].state = doc[t].state
        BY <3>2, <3>5, <4>1 DEF L!Start, L!Execute, L!Finish, L!Retry, L!Move, L!Active, L!Terminal, Target,
             Active, Terminal, State, ValidateTransition
      <4>3. QED
        BY <3>3, <4>2 DEF L!Next
    <3>6. QED
      BY <3>1, <3>3, <3>4, <3>5 DEF StateMove
  <2>3. QED
    BY <1>2, <2>1, <2>2, EventsStep DEF GoodStep
<1>3. QED
  BY <1>1, <1>2, StoreInitInv, StoreInvStep, PTL DEF Spec, ImplementsLifecycle, L!Spec

(* A call is acknowledged when its write has gone through.                 *)
LEMMA OkStep ==
  ASSUME StoreInv, Next, NEW w \in Writer, call'[w] # call[w], call'[w].step = "ok"
  PROVE  call[w].step = "write" /\ ~Stale(w) /\ Apply(w) /\ Goto(w, "ok")
<1>1. call \in [Writer -> Call]
  BY DEF StoreInv, StoreType
<1>2. ASSUME NEW v \in Writer, Again(v) \/ Goto(v, "error") PROVE FALSE
  BY <1>1, <1>2 DEF Again, Goto, Call
<1>3. ASSUME NEW v \in Writer, NEW op, NEW t, NEW to, WriteEvent(v, op, t, to) PROVE FALSE
  BY <1>1, <1>3 DEF WriteEvent
<1>4. ASSUME NEW v \in Writer, Read(v) PROVE FALSE
  <2>1. ASSUME NEW r, ReadAnswer(v, r) PROVE FALSE
    BY <1>1, <1>2, <2>1 DEF ReadAnswer, Call
  <2>2. QED
    BY <1>2, <1>4, <2>1 DEF Read, Failed, Throttled
<1>5. PICK v \in Writer : Write(v)
  BY <1>3, <1>4 DEF Next, CreateTask, CreateOwner
<1>6. call[v].step = "write" /\ ~Stale(v) /\ Apply(v) /\ Goto(v, "ok")
  BY <1>2, <1>5 DEF Write, Failed, Throttled
<1>7. v = w
  BY <1>1, <1>6 DEF Goto
<1>8. QED
  BY <1>6, <1>7

(* An acknowledged end of a task holds.                                    *)
LEMMA FinalStep ==
  ASSUME StoreInv, FinalStays, [Next]_vars
  PROVE  FinalStays'
<1>1. CASE UNCHANGED vars
  BY <1>1 DEF vars, FinalStays
<1>2. CASE ~UNCHANGED vars
  <2>1. GoodStep
    BY <1>2, EventsStep
  <2>2. SUFFICES ASSUME NEW w \in Writer, call'[w].op = "state", call'[w].step = "ok",
                        call'[w].to \in {"COMPLETE", "CANCELED"}
                 PROVE  doc'[call'[w].task].state = call'[w].to
    BY DEF FinalStays
  <2>3. call[w] \in Call /\ call \in [Writer -> Call] /\ doc \in [Task -> Doc]
    BY DEF StoreInv, StoreType
  <2>4. CASE call'[w] = call[w]
    <3>1. doc[call[w].task].state = call[w].to
      BY <2>2, <2>4 DEF FinalStays
    <3>2. PICK t \in Task : StateMove(t) /\ \A u \in Task \ {t} : doc'[u] = doc[u]
      BY <2>1 DEF GoodStep, OneMoves
    <3>3. CASE t = call[w].task
      BY <2>2, <2>4, <3>1, <3>2, <3>3 DEF StateMove, ValidateTransition, Target, Terminal
    <3>4. CASE t # call[w].task
      BY <2>3, <2>4, <3>1, <3>2, <3>4 DEF Call
    <3>5. QED
      BY <3>3, <3>4
  <2>5. CASE call'[w] # call[w]
    <3>1. call[w].step = "write" /\ ~Stale(w) /\ Apply(w) /\ Goto(w, "ok")
      BY <1>2, <2>2, <2>3, <2>5, OkStep
    <3>2. QED
      BY <2>2, <2>3, <3>1, PutIs DEF Written, Goto, Apply, Call
  <2>6. QED
    BY <2>4, <2>5
<1>3. QED
  BY <1>1, <1>2

(* A step that acknowledges a log line or metadata entry has stored it,    *)
(* and no step takes one away.                                             *)
LEMMA KeptStep ==
  ASSUME StoreInv, EventsKept, [Next]_vars
  PROVE  EventsKept'
<1>1. CASE UNCHANGED vars
  BY <1>1 DEF vars, EventsKept
<1>2. CASE ~UNCHANGED vars
  <2>1. GoodStep
    BY <1>2, EventsStep
  <2>0. UNCHANGED kind
    BY <1>2 DEF Next, CreateTask, CreateOwner, WriteEvent, Read, Write
  <2>2. SUFFICES ASSUME NEW w \in Writer, call'[w].step = "ok", kind # "postgres"
                 PROVE  /\ call'[w].op = "metadata" => w \in doc'[call'[w].task].metadata
                        /\ call'[w].op = "log" => w \in doc'[call'[w].task].log
    BY <2>0 DEF EventsKept
  <2>3. call[w] \in Call /\ call \in [Writer -> Call] /\ doc \in [Task -> Doc]
    BY DEF StoreInv, StoreType
  <2>4. CASE call'[w] = call[w]
    <3>1. call[w].task \in Task
      BY <2>3 DEF Call
    <3>2. QED
      BY <2>1, <2>2, <2>4, <3>1 DEF GoodStep, TasksMove, EventsKept
  <2>5. CASE call'[w] # call[w]
    <3>1. call[w].step = "write" /\ ~Stale(w) /\ Apply(w) /\ Goto(w, "ok")
      BY <1>2, <2>2, <2>3, <2>5, OkStep
    <3>2. QED
      BY <2>2, <2>3, <3>1, PutIs DEF Written, Goto, Apply, Call
  <2>6. QED
    BY <2>4, <2>5
<1>3. QED
  BY <1>1, <1>2

(* A caller that was told its COMPLETE or CANCELED was written can rely on *)
(* it for good: FinalStays, for any number of tasks, writers, retries and  *)
(* failures (WriteEvent, ValidateTransition).                              *)
THEOREM FinalCorrect == Spec => []FinalStays
<1>1. Init => FinalStays
  BY DEF Init, FinalStays
<1>2. QED
  BY <1>1, StoreInitInv, StoreInvStep, FinalStep, PTL DEF Spec

(* An acknowledged system log line or metadata entry stays stored, except  *)
(* with Postgres: EventsKept, for any number of tasks and writers          *)
(* (WriteEvent).                                                           *)
THEOREM EventsCorrect == Spec => []EventsKept
<1>1. Init => EventsKept
  BY DEF Init, EventsKept
<1>2. QED
  BY <1>1, StoreInitInv, StoreInvStep, KeptStep, PTL DEF Spec

-----------------------------------------------------------------------------
(* What a reader of the queue may see, and the state of the task it        *)
(* builds.                                                                 *)

(* The behaviours of the pipeline; safety needs no fairness.               *)
PipeSpec == PipeInit /\ [][PipeNext]_pipeVars

(* The states that are written, and the events that a process writes.      *)
Errors == {"SYSTEM_ERROR", "EXECUTOR_ERROR"}

(* The states that are written.                                            *)
Reported == {"INITIALIZING", "RUNNING", "COMPLETE", "CANCELED"} \cup Errors

(* The events that a process writes.                                       *)
Event == {TaskCreated} \cup Logs \cup {StateEvent(s) : s \in Reported}

(* The rest of a chain: one event, and the database before the queue.      *)
Shape(h) ==
  /\ h \in Seq([to : {"store", "publish"}, ev : Event])
  /\ h # <<>> =>
       /\ \A i \in 1..Len(h) : h[i].ev = h[1].ev /\ (i > 1 => h[i].to = "publish")
       /\ h[1].to = "store" /\ wiring.queue # "none" => Len(h) > 1

(* What each process still has to write; the worker creates no task.       *)
HopInv ==
  /\ hop \in [Process -> Seq([to : {"store", "publish"}, ev : Event])]
  /\ \A p \in Process : Shape(hop[p])
  /\ hop["worker"] # <<>> => hop["worker"][1].ev # TaskCreated

(* The messages in the queue.                                              *)
Unacknowledged == {m \in Message : pending[m] > 0}

(* The messages that a reader may still receive.                           *)
Queued == {topic[i] : i \in DOMAIN topic} \cup Unacknowledged

(* The values the queue and the other variables take.                      *)
QueueType ==
  /\ topic \in Seq(Event)
  /\ pending \in [Message -> Nat] /\ Unacknowledged \subseteq Event
  /\ accepted \subseteq {StateEvent(s) : s \in Reported}
  /\ losses \in Nat
  /\ wiring \in [embedded : BOOLEAN, queue : {"none", "kafka", "pubsub"}]

(* What is on its way to the queue has been stored.                        *)
StoredFirst ==
  \A p \in Process :
    hop[p] # <<>> /\ hop[p][1].to = "publish" /\ hop[p][1].ev.type = "state" => hop[p][1].ev \in accepted

(* The inductive invariant of StreamFollowsStore.                          *)
StreamInv == HopInv /\ QueueType /\ StoredFirst /\ StreamFollowsStore

(* A state event is the one of its state.                                  *)
LEMMA StateEvents ==
  ASSUME NEW ev \in Event, ev.type = "state"
  PROVE  ev.of \in Reported /\ ev = StateEvent(ev.of)
<1>1. ev # TaskCreated /\ ev # Output /\ \A l \in Level : ev # SystemLog(l)
  <2>1. TaskCreated.type = "created"
    BY DEF TaskCreated
  <2>2. Output.type = "output"
    BY DEF Output
  <2>3. \A l \in Level : SystemLog(l).type = "syslog"
    BY DEF SystemLog
  <2>4. QED
    BY <2>1, <2>2, <2>3
<1>2. PICK s \in Reported : ev = StateEvent(s)
  BY <1>1 DEF Event, Logs
<1>3. QED
  BY <1>2 DEF StateEvent

(* NewServer's and NewWorker's chains begin with the database.             *)
LEMMA WritersAre ==
  ASSUME NEW ws, ws \in {ServerWriters, WorkerWriters}
  PROVE  /\ ws \in Seq({"store", "publish"}) /\ Len(ws) > 0 /\ ws[1] = "store"
         /\ \A i \in 2..Len(ws) : ws[i] = "publish"
         /\ wiring.queue # "none" => Len(ws) > 1
<1>1. QueueWriter \in Seq({"store", "publish"}) /\ Len(QueueWriter) \in 0..1
      /\ (Len(QueueWriter) = 1 => QueueWriter[1] = "publish") /\ (wiring.queue # "none" => Len(QueueWriter) = 1)
  <2>1. CASE wiring.queue = "none"
    <3>1. QueueWriter = <<>>
      BY <2>1 DEF QueueWriter
    <3>2. QED
      BY <2>1, <3>1
  <2>2. CASE wiring.queue # "none"
    <3>1. QueueWriter = <<"publish">>
      BY <2>2 DEF QueueWriter
    <3>2. QED
      BY <3>1
  <2>3. QED
    BY <2>1, <2>2
<1>2. PICK q \in Seq({"store", "publish"}) : q = QueueWriter
  BY <1>1
<1>3. /\ ServerWriters \in Seq({"store", "publish"}) /\ Len(ServerWriters) = 1 + Len(q)
      /\ ServerWriters[1] = "store" /\ \A i \in 2..Len(ServerWriters) : ServerWriters[i] = q[i - 1]
  BY <1>2 DEF ServerWriters
<1>4. /\ \A i \in 2..Len(ServerWriters) : ServerWriters[i] = "publish"
      /\ wiring.queue # "none" => Len(ServerWriters) > 1
  BY <1>1, <1>2, <1>3
<1>5. PICK f \in {ServerWriters, <<"store">>} : WorkerWriters = f \o q
  BY <1>2 DEF WorkerWriters
<1>6. /\ f \in Seq({"store", "publish"}) /\ Len(f) > 0 /\ f[1] = "store"
      /\ \A i \in 2..Len(f) : f[i] = "publish"
  <2>1. CASE f = ServerWriters
    BY <1>1, <1>2, <1>3, <1>4, <2>1
  <2>2. CASE f = <<"store">>
    BY <2>2
  <2>3. QED
    BY <1>5, <2>1, <2>2
<1>7. /\ WorkerWriters \in Seq({"store", "publish"}) /\ Len(WorkerWriters) = Len(f) + Len(q)
      /\ WorkerWriters[1] = "store"
      /\ \A i \in 2..Len(WorkerWriters) : WorkerWriters[i] = IF i <= Len(f) THEN f[i] ELSE q[i - Len(f)]
  BY <1>2, <1>5, <1>6
<1>8. \A i \in 2..Len(WorkerWriters) : WorkerWriters[i] = "publish"
  BY <1>1, <1>2, <1>6, <1>7
<1>9. QED
  BY <1>1, <1>2, <1>3, <1>4, <1>6, <1>7, <1>8

(* What a chain of writers makes of an event has the shape, and starts     *)
(* with the database.                                                      *)
LEMMA ChainShape ==
  ASSUME NEW ws, ws \in {ServerWriters, WorkerWriters}, NEW ev \in Event
  PROVE  Shape(Chain(ws, ev)) /\ Chain(ws, ev) # <<>> /\ Chain(ws, ev)[1] = [to |-> "store", ev |-> ev]
<1>1. /\ ws \in Seq({"store", "publish"}) /\ Len(ws) > 0 /\ ws[1] = "store"
      /\ \A i \in 2..Len(ws) : ws[i] = "publish"
      /\ wiring.queue # "none" => Len(ws) > 1
  BY WritersAre
<1>2. PICK n \in Nat : n = Len(ws)
  BY <1>1
<1>3. Chain(ws, ev) = [i \in 1..n |-> [to |-> ws[i], ev |-> ev]]
  BY <1>1, <1>2 DEF Chain
<1>4. \A i \in 1..n : [to |-> ws[i], ev |-> ev] \in [to : {"store", "publish"}, ev : Event]
  BY <1>1, <1>2
<1>5. Chain(ws, ev) \in Seq([to : {"store", "publish"}, ev : Event]) /\ Len(Chain(ws, ev)) = n
  BY <1>3, <1>4
<1>6. \A i \in 1..n : Chain(ws, ev)[i].ev = ev /\ Chain(ws, ev)[i].to = ws[i]
  BY <1>3
<1>7. n > 0 /\ Chain(ws, ev)[1] = [to |-> "store", ev |-> ev] /\ Chain(ws, ev) # <<>>
  BY <1>1, <1>2, <1>3, <1>5
<1>8. QED
  BY <1>1, <1>2, <1>5, <1>6, <1>7 DEF Shape

(* So has the rest of a chain.                                             *)
LEMMA TailShape ==
  ASSUME NEW h, Shape(h), h # <<>>
  PROVE  /\ Shape(Tail(h))
         /\ Tail(h) # <<>> => Tail(h)[1].to = "publish" /\ Tail(h)[1].ev = h[1].ev
         /\ h[1].to = "store" /\ wiring.queue # "none" => Tail(h) # <<>>
<1>1. h \in Seq([to : {"store", "publish"}, ev : Event])
  BY DEF Shape
<1>2. Tail(h) \in Seq([to : {"store", "publish"}, ev : Event]) /\ Len(Tail(h)) = Len(h) - 1
      /\ \A i \in 1..Len(Tail(h)) : Tail(h)[i] = h[i + 1]
  BY <1>1
<1>3. Len(h) \in Nat
  BY <1>1
<1>4. \A i \in 1..Len(Tail(h)) : Tail(h)[i].to = "publish" /\ Tail(h)[i].ev = h[1].ev
  BY <1>2, <1>3 DEF Shape
<1>5. Tail(h) # <<>> => Len(Tail(h)) > 0
  BY <1>2
<1>6. h[1].to = "store" /\ wiring.queue # "none" => Tail(h) # <<>>
  BY <1>2, <1>3 DEF Shape
<1>7. Shape(Tail(h))
  BY <1>2, <1>3, <1>4, <1>5 DEF Shape
<1>8. Tail(h) # <<>> => 1 \in 1..Len(Tail(h))
  BY <1>2, <1>3, <1>5
<1>9. QED
  BY <1>4, <1>6, <1>7, <1>8

(* A chain given to one process keeps HopInv.                              *)
LEMMA HopStep ==
  ASSUME HopInv, NEW p \in Process, NEW h, Shape(h), hop' = [hop EXCEPT ![p] = h], UNCHANGED wiring,
         h = <<>> \/ p = "server" \/ h[1].ev # TaskCreated
  PROVE  HopInv'
<1>1. h \in Seq([to : {"store", "publish"}, ev : Event])
  BY DEF Shape
<1>2. hop' \in [Process -> Seq([to : {"store", "publish"}, ev : Event])]
  BY <1>1 DEF HopInv
<1>3. hop'[p] = h /\ \A q \in Process \ {p} : hop'[q] = hop[q]
  BY DEF HopInv
<1>4. ASSUME NEW q \in Process PROVE Shape(hop[q])'
  <2>1. Shape(hop'[q])
    BY <1>3 DEF HopInv
  <2>2. QED
    BY <2>1 DEF Shape
<1>5. hop'["worker"] # <<>> => hop'["worker"][1].ev # TaskCreated
  BY <1>3 DEF HopInv, Process
<1>6. QED
  BY <1>2, <1>4, <1>5 DEF HopInv

(* No rest at all has the shape too.                                       *)
LEMMA EmptyShape == Shape(<<>>)
BY DEF Shape

(* The events that the processes begin with are events, and only the       *)
(* server creates the task.                                                *)
LEMMA WorkerEventsAre ==
  /\ ServerEvents \subseteq Event
  /\ WorkerEvents \subseteq Event /\ TaskCreated \notin WorkerEvents
<1>1. \A s \in Reported : StateEvent(s) \in Event /\ StateEvent(s) # TaskCreated
  BY DEF Event, StateEvent, TaskCreated
<1>2. Logs \subseteq Event /\ TaskCreated \notin Logs
  BY DEF Event, Logs, TaskCreated, Output, SystemLog
<1>3. ServerEvents \subseteq Event
  BY <1>1 DEF ServerEvents, Event, Reported, Errors
<1>4. WorkerEvents \subseteq Logs \cup {StateEvent(s) : s \in Reported}
  BY DEF WorkerEvents, Reported, Errors
<1>5. QED
  BY <1>1, <1>2, <1>3, <1>4

(* An event that is begun is headed for the database.                      *)
LEMMA BeginShape ==
  ASSUME HopInv, NEW p \in Process, Begin(p)
  PROVE  /\ HopInv'
         /\ \E h : /\ hop' = [hop EXCEPT ![p] = h]
                   /\ h # <<>> => h[1].to = "store"
<1>1. PICK ev \in (IF p = "server" THEN ServerEvents ELSE WorkerEvents) :
        hop' = [hop EXCEPT ![p] = IF ~Passes(ev) THEN <<>> ELSE Chain(IF p = "server" THEN ServerWriters
                                                                       ELSE WorkerWriters, ev)]
  BY DEF Begin
<1>2. ev \in Event /\ (p = "server" \/ ev # TaskCreated) /\ UNCHANGED wiring
  BY <1>1, WorkerEventsAre DEF Begin
<1>3. CASE ~Passes(ev)
  BY <1>1, <1>2, <1>3, EmptyShape, HopStep
<1>4. CASE Passes(ev)
  <2>1. PICK ws \in {ServerWriters, WorkerWriters} : hop' = [hop EXCEPT ![p] = Chain(ws, ev)]
    BY <1>1, <1>4
  <2>2. Shape(Chain(ws, ev)) /\ Chain(ws, ev)[1] = [to |-> "store", ev |-> ev]
    BY <1>2, <2>1, ChainShape
  <2>3. QED
    <3>2. Chain(ws, ev)[1].to = "store" /\ Chain(ws, ev)[1].ev = ev
      BY <2>2
    <3>0. PICK h : h = Chain(ws, ev)
      OBVIOUS
    <3>1. HopInv'
      BY <1>2, <2>1, <2>2, <3>2, <3>0, HopStep
    <3>3. QED
      BY <2>1, <3>1, <3>2
<1>5. QED
  BY <1>3, <1>4

(* A step along the chain, or the end of it.                               *)
LEMMA AlongShape ==
  ASSUME HopInv, NEW p \in Process, hop[p] # <<>>, GoOn(p) \/ Stop(p), UNCHANGED wiring
  PROVE  /\ HopInv'
         /\ \A q \in Process \ {p} : hop'[q] = hop[q]
         /\ hop'[p] # <<>> => hop'[p][1].to = "publish" /\ hop'[p][1].ev = hop[p][1].ev
         /\ GoOn(p) /\ hop[p][1].to = "store" /\ wiring.queue # "none" => hop'[p] # <<>>
<1>1. Shape(hop[p]) /\ hop \in [Process -> Seq([to : {"store", "publish"}, ev : Event])]
  BY DEF HopInv
<1>2. CASE Stop(p)
  <2>1. hop'[p] = <<>> /\ \A q \in Process \ {p} : hop'[q] = hop[q]
    BY <1>1, <1>2 DEF Stop
  <2>2. HopInv'
    BY <1>2, EmptyShape, HopStep DEF Stop
  <2>3. CASE GoOn(p)
    BY <1>1, <2>1, <2>2, <2>3, TailShape DEF GoOn
  <2>4. QED
    BY <2>1, <2>2, <2>3
<1>3. CASE GoOn(p)
  <2>1. /\ Shape(Tail(hop[p]))
        /\ Tail(hop[p]) # <<>> => Tail(hop[p])[1].to = "publish" /\ Tail(hop[p])[1].ev = hop[p][1].ev
        /\ hop[p][1].to = "store" /\ wiring.queue # "none" => Tail(hop[p]) # <<>>
    BY <1>1, TailShape
  <2>2. hop' = [hop EXCEPT ![p] = Tail(hop[p])]
    BY <1>3 DEF GoOn
  <2>3. hop'[p] = Tail(hop[p]) /\ \A q \in Process \ {p} : hop'[q] = hop[q]
    BY <1>1, <2>2
  <2>4. p = "worker" => hop[p][1].ev # TaskCreated
    BY DEF HopInv
  <2>5. HopInv'
    BY <2>1, <2>2, <2>4, HopStep DEF Process
  <2>6. QED
    BY <2>1, <2>3, <2>5
<1>4. QED
  BY <1>2, <1>3

(* The first of a nonempty sequence.                                       *)
LEMMA FirstOf ==
  ASSUME NEW S, NEW h \in Seq(S), h # <<>>
  PROVE  Head(h) = h[1] /\ h[1] \in S
<1>1. Len(h) \in Nat /\ Len(h) > 0
  OBVIOUS
<1>2. QED
  BY <1>1

(* The first hop of a process.                                             *)
LEMMA HeadIs ==
  ASSUME HopInv, NEW p \in Process, hop[p] # <<>>
  PROVE  /\ Head(hop[p]) = hop[p][1] /\ hop[p][1].ev \in Event /\ hop[p][1].to \in {"store", "publish"}
<1>1. Head(hop[p]) = hop[p][1] /\ hop[p][1] \in [to : {"store", "publish"}, ev : Event]
  BY FirstOf DEF HopInv
<1>2. QED
  BY <1>1

(* A step that leaves the queue, the reader and the database alone.        *)
LEMMA QueueKept ==
  ASSUME StreamInv, HopInv', StoredFirst', UNCHANGED <<wiring, accepted, topic, pending, built>>, losses' \in Nat
  PROVE  StreamInv'
BY DEF StreamInv, QueueType, StreamFollowsStore, Unacknowledged

(* Beginning an event keeps the invariant.                                 *)
LEMMA BeginStep ==
  ASSUME StreamInv, NEW p \in Process, Begin(p)
  PROVE  StreamInv'
<1>1. PICK h : hop' = [hop EXCEPT ![p] = h] /\ (h # <<>> => h[1].to = "store")
  BY BeginShape DEF StreamInv
<1>2. hop'[p] = h /\ \A q \in Process \ {p} : hop'[q] = hop[q]
  BY <1>1 DEF StreamInv, HopInv
<1>3. UNCHANGED <<wiring, accepted, topic, pending, built, losses>>
  BY DEF Begin
<1>4. StoredFirst'
  BY <1>1, <1>2, <1>3 DEF StreamInv, StoredFirst
<1>5. QED
  BY <1>3, <1>4, BeginShape, QueueKept DEF StreamInv, QueueType

(* So does a write that fails, which ends its chain.                       *)
LEMMA BreakStep ==
  ASSUME StreamInv, NEW p \in Process, Break(p)
  PROVE  StreamInv'
<1>1. hop[p] # <<>> /\ (Stop(p) \/ (GoOn(p) /\ hop[p][1].to = "publish"))
  BY HeadIs DEF Break, NextIs, StreamInv
<1>2. UNCHANGED <<wiring, accepted, topic, pending, built>> /\ losses' \in Nat
  <2>1. losses \in Nat
    BY DEF StreamInv, QueueType
  <2>2. losses' = losses + 1 /\ UNCHANGED <<wiring, accepted, topic, pending, built>>
    BY DEF Break
  <2>3. QED
    BY <2>1, <2>2
<1>3. HopInv' /\ \A q \in Process \ {p} : hop'[q] = hop[q]
  BY <1>1, <1>2, AlongShape DEF StreamInv
<1>4. hop'[p] # <<>> => hop[p][1].to = "publish" /\ hop'[p][1].ev = hop[p][1].ev
  <2>1. CASE Stop(p)
    BY <2>1 DEF Stop, StreamInv, HopInv
  <2>2. CASE GoOn(p) /\ hop[p][1].to = "publish"
    BY <1>1, <1>2, <2>2, AlongShape DEF StreamInv
  <2>3. QED
    BY <1>1, <2>1, <2>2
<1>5. StoredFirst'
  BY <1>1, <1>2, <1>3, <1>4 DEF StreamInv, StoredFirst
<1>6. QED
  BY <1>2, <1>3, <1>5, QueueKept

(* So does the write to the database.                                      *)
LEMMA ChainStoreStep ==
  ASSUME StreamInv, NEW p \in Process, StoreEvent(p)
  PROVE  StreamInv'
<1> DEFINE ev == hop[p][1].ev
<1>1. hop[p] # <<>> /\ Carried(p) = ev /\ ev \in Event /\ UNCHANGED <<wiring, topic, pending, built, losses>>
  BY HeadIs DEF StoreEvent, NextIs, Carried, StreamInv
<1>2. \/ Stop(p) /\ UNCHANGED accepted
      \/ GoOn(p) /\ ev.type # "state" /\ UNCHANGED accepted
      \/ GoOn(p) /\ ev.type = "state" /\ accepted' = accepted \cup {ev}
  BY <1>1 DEF StoreEvent
<1>3. HopInv' /\ \A q \in Process \ {p} : hop'[q] = hop[q]
  BY <1>1, <1>2, AlongShape DEF StreamInv
<1>4. hop'[p] # <<>> => hop'[p][1].ev = ev /\ (ev.type = "state" => ev \in accepted')
  <2>1. CASE Stop(p)
    BY <2>1 DEF Stop, StreamInv, HopInv
  <2>2. CASE ~Stop(p)
    BY <1>1, <1>2, <2>2, AlongShape DEF StreamInv
  <2>3. QED
    BY <2>1, <2>2
<1>5. accepted \subseteq accepted' /\ accepted' \subseteq {StateEvent(s) : s \in Reported}
  BY <1>1, <1>2, StateEvents DEF StreamInv, QueueType
<1>6. StoredFirst'
  BY <1>3, <1>4, <1>5 DEF StreamInv, StoredFirst
<1>7. StreamFollowsStore'
  BY <1>1, <1>5 DEF StreamInv, StreamFollowsStore
<1>8. QED
  BY <1>1, <1>3, <1>5, <1>6, <1>7 DEF StreamInv, QueueType, Unacknowledged

(* The queue writers drop all events but messages.                         *)
LEMMA NotDropped ==
  ASSUME NEW ev \in Event, ev.type \notin {"output", "syslog"}
  PROVE  ev \in Message
<1>1. Output.type = "output" /\ \A l \in Level : SystemLog(l).type = "syslog"
  BY DEF Output, SystemLog
<1>2. Reported \subseteq State
  BY DEF Reported, Errors, State, Active, Terminal
<1>3. QED
  BY <1>1, <1>2 DEF Event, Logs, Message

(* What a publication leaves in the queue.                                 *)
LEMMA PublishAdds ==
  ASSUME StreamInv, NEW p \in Process, Publish(p)
  PROVE  /\ topic' \in Seq(Event) /\ pending' \in [Message -> Nat] /\ Unacknowledged' \subseteq Event
         /\ Queued' \in {Queued, Queued \cup {hop[p][1].ev}}
         /\ hop[p][1].ev.type = "state" => Queued' = Queued \cup {hop[p][1].ev}
<1> DEFINE ev == hop[p][1].ev
<1>1. hop[p] # <<>> /\ Carried(p) = ev /\ ev \in Event
  BY HeadIs DEF Publish, NextIs, Carried, StreamInv
<1>2. topic \in Seq(Event) /\ pending \in [Message -> Nat] /\ Unacknowledged \subseteq Event
  BY DEF StreamInv, QueueType
<1>3. CASE UNCHANGED <<topic, pending>> /\ ev.type \in {"output", "syslog"}
  BY <1>2, <1>3 DEF Queued, Unacknowledged
<1>4. CASE topic' = Append(topic, ev) /\ UNCHANGED pending
  <2>1. topic' \in Seq(Event) /\ {topic'[i] : i \in DOMAIN topic'} = {topic[i] : i \in DOMAIN topic} \cup {ev}
    BY <1>1, <1>2, <1>4
  <2>2. QED
    BY <1>2, <1>4, <2>1 DEF Queued, Unacknowledged
<1>5. CASE pending' = [pending EXCEPT ![ev] = @ + 1] /\ ev.type \notin {"output", "syslog"} /\ UNCHANGED topic
  <2>0. ev \in Message
    BY <1>1, <1>5, NotDropped
  <2>1. pending' \in [Message -> Nat] /\ Unacknowledged' = Unacknowledged \cup {ev}
    BY <1>2, <1>5, <2>0 DEF Unacknowledged
  <2>2. QED
    BY <1>1, <1>2, <1>5, <2>1 DEF Queued, Unacknowledged
<1>6. QED
  BY <1>1, <1>3, <1>4, <1>5 DEF Publish

(* So does publishing an event.                                            *)
LEMMA PublishStep ==
  ASSUME StreamInv, NEW p \in Process, Publish(p)
  PROVE  StreamInv'
<1> DEFINE ev == hop[p][1].ev
<1>1. hop[p] # <<>> /\ hop[p][1].to = "publish" /\ GoOn(p) /\ UNCHANGED <<wiring, accepted, built, losses>>
  BY HeadIs DEF Publish, NextIs, StreamInv
<1>2. /\ HopInv' /\ \A q \in Process \ {p} : hop'[q] = hop[q]
      /\ hop'[p] # <<>> => hop'[p][1].ev = ev
  BY <1>1, AlongShape DEF StreamInv
<1>3. ev.type = "state" => ev \in accepted
  BY <1>1 DEF StreamInv, StoredFirst
<1>4. StoredFirst'
  BY <1>1, <1>2, <1>3 DEF StreamInv, StoredFirst
<1>5. StreamFollowsStore'
  BY <1>1, <1>3, PublishAdds DEF StreamInv, StreamFollowsStore, Queued, Unacknowledged
<1>6. QED
  BY <1>1, <1>2, <1>4, <1>5, PublishAdds DEF StreamInv, QueueType

(* What a message leaves in the queue when it is received.                 *)
LEMMA ReadTakes ==
  ASSUME StreamInv, ReadKafka \/ ReadPubSub
  PROVE  \E ev \in Queued :
           /\ Build(ev) /\ ev \in Event
           /\ topic' \in Seq(Event) /\ pending' \in [Message -> Nat] /\ Unacknowledged' \subseteq Event
           /\ Queued' \subseteq Queued /\ Queued \ {ev} \subseteq Queued'
<1>1. topic \in Seq(Event) /\ pending \in [Message -> Nat] /\ Unacknowledged \subseteq Event
  BY DEF StreamInv, QueueType
<1>2. CASE ReadKafka
  <2>1. topic # <<>> /\ Build(topic[1]) /\ topic' = Tail(topic) /\ UNCHANGED pending
    BY <1>1, <1>2 DEF ReadKafka
  <2>2. topic' \in Seq(Event) /\ Len(topic') = Len(topic) - 1 /\ Len(topic) \in Nat /\ Len(topic) > 0
        /\ \A i \in 1..Len(topic') : topic'[i] = topic[i + 1]
    BY <1>1, <2>1
  <2>3. {topic'[i] : i \in DOMAIN topic'} \subseteq {topic[i] : i \in DOMAIN topic}
    <3>1. \A i \in DOMAIN topic' : i + 1 \in DOMAIN topic /\ topic'[i] = topic[i + 1]
      BY <1>1, <2>2
    <3>2. QED
      BY <3>1
  <2>4. ASSUME NEW i \in DOMAIN topic, topic[i] # topic[1] PROVE topic[i] \in {topic'[j] : j \in DOMAIN topic'}
    <3>1. i - 1 \in 1..Len(topic') /\ i = (i - 1) + 1
      BY <1>1, <2>2, <2>4
    <3>2. topic'[i - 1] = topic[i] /\ i - 1 \in DOMAIN topic'
      BY <2>2, <3>1
    <3>3. QED
      BY <3>2
  <2>5. topic[1] \in Queued /\ topic[1] \in Event
    BY <1>1, <2>2 DEF Queued, Unacknowledged
  <2>6. Queued' \subseteq Queued /\ Queued \ {topic[1]} \subseteq Queued'
    BY <2>1, <2>3, <2>4 DEF Queued, Unacknowledged
  <2>7. Unacknowledged' = Unacknowledged
    BY <2>1 DEF Unacknowledged
  <2>8. QED
    BY <1>1, <2>1, <2>2, <2>5, <2>6, <2>7
<1>3. CASE ReadPubSub
  <2>1. PICK ev \in Unacknowledged : Build(ev) /\ (pending' = [pending EXCEPT ![ev] = @ - 1] \/ UNCHANGED pending)
    BY <1>3 DEF ReadPubSub, Unacknowledged
  <2>2. UNCHANGED topic
    BY <1>3 DEF ReadPubSub
  <2>3. pending' \in [Message -> Nat] /\ Unacknowledged' \subseteq Unacknowledged /\ Unacknowledged \ {ev} \subseteq Unacknowledged'
    BY <1>1, <2>1 DEF Unacknowledged
  <2>4. QED
    BY <1>1, <2>1, <2>2, <2>3 DEF Queued, Unacknowledged
<1>4. QED
  BY <1>2, <1>3

(* So does reading one, in order from Kafka or in any order from PubSub.   *)
LEMMA ChainReadStep ==
  ASSUME StreamInv, ReadKafka \/ ReadPubSub
  PROVE  StreamInv'
<1>1. PICK ev \in Queued :
           /\ Build(ev) /\ ev \in Event
           /\ topic' \in Seq(Event) /\ pending' \in [Message -> Nat] /\ Unacknowledged' \subseteq Event
           /\ Queued' \subseteq Queued
  BY ReadTakes
<1>2. UNCHANGED <<wiring, accepted, hop>> /\ losses' \in Nat
  <2>1. losses \in Nat
    BY DEF StreamInv, QueueType
  <2>2. UNCHANGED <<wiring, accepted, hop>> /\ (UNCHANGED losses \/ losses' = losses + 1)
    BY DEF ReadKafka, ReadPubSub
  <2>3. QED
    BY <2>1, <2>2
<1>3. HopInv' /\ StoredFirst'
  BY <1>2 DEF StreamInv, HopInv, Shape, StoredFirst
<1>4. ev.type = "state" => ev \in accepted /\ StateEvent(ev.of) = ev
  BY <1>1, StateEvents DEF StreamInv, StreamFollowsStore, Queued, Unacknowledged
<1>5. StreamFollowsStore'
  BY <1>1, <1>2, <1>4 DEF StreamInv, StreamFollowsStore, Queued, Unacknowledged, Build
<1>6. QED
  BY <1>1, <1>2, <1>3, <1>5 DEF StreamInv, QueueType

(* The invariant holds at first.                                           *)
LEMMA StreamInit ==
  ASSUME PipeInit
  PROVE  StreamInv
<1>1. HopInv /\ StoredFirst
  <2>1. hop \in [Process -> Seq([to : {"store", "publish"}, ev : Event])] /\ \A p \in Process : hop[p] = <<>>
    BY DEF PipeInit
  <2>2. "worker" \in Process
    BY DEF Process
  <2>3. QED
    BY <2>1, <2>2, EmptyShape DEF HopInv, StoredFirst
<1>2. pending \in [Message -> Nat] /\ Unacknowledged = {}
  BY DEF PipeInit, NoMessage, Unacknowledged
<1>3. QueueType
  BY <1>2 DEF PipeInit, QueueType
<1>4. StreamFollowsStore
  BY <1>2 DEF PipeInit, StreamFollowsStore, Unacknowledged
<1>5. QED
  BY <1>1, <1>3, <1>4 DEF StreamInv

(* Every step keeps it.                                                    *)
LEMMA StreamStep ==
  ASSUME StreamInv, [PipeNext]_pipeVars
  PROVE  StreamInv'
<1>1. CASE UNCHANGED pipeVars
  <2>1. HopInv' /\ StoredFirst'
    BY <1>1 DEF pipeVars, StreamInv, HopInv, Shape, StoredFirst
  <2>2. UNCHANGED <<wiring, accepted, topic, pending, built>> /\ losses' \in Nat
    BY <1>1 DEF pipeVars, StreamInv, QueueType
  <2>3. QED
    BY <2>1, <2>2, QueueKept
<1>2. QED
  BY <1>1, BeginStep, ChainStoreStep, PublishStep, BreakStep, ChainReadStep DEF PipeNext

(* What reaches the queue, or the task built from it, is in the database:  *)
(* StreamFollowsStore (MultiWriter, the order of the writers in NewServer  *)
(* and NewWorker).                                                         *)
THEOREM StreamCorrect == PipeSpec => []StreamFollowsStore
<1>1. StreamInv => StreamFollowsStore
  BY DEF StreamInv
<1>2. QED
  BY <1>1, StreamInit, StreamStep, PTL DEF PipeSpec

-----------------------------------------------------------------------------
(* The states a task may be in after the state s, without errors.          *)
Beyond(s) ==
  CASE s = "INITIALIZING" -> {"INITIALIZING", "RUNNING", "COMPLETE", "CANCELED"}
    [] s = "RUNNING" -> {"RUNNING", "COMPLETE", "CANCELED"}
    [] OTHER -> {s}

(* No system or executor error was stored.                                 *)
NoErrors == \A s \in Errors : StateEvent(s) \notin accepted

(* The task has not been stored and nothing is written for it.             *)
Before ==
  \/ TaskCreated \notin sentBy["server"]
  \/ hop["server"] # <<>> /\ hop["server"][1].to = "store" /\ hop["server"][1].ev = TaskCreated

(* Nothing is stored, and no worker runs, before the task is created.      *)
CreateInv ==
  /\ sentBy \in [Process -> SUBSET Event]
  /\ TaskCreated \notin sentBy["server"] => hop["server"] = <<>>
  /\ Before => dbState = "UNKNOWN" /\ accepted = {} /\ hop["worker"] = <<>> /\ sentBy["worker"] = {}

(* The database has gone through what it accepted.                         *)
StoredInv ==
  /\ dbState \in {"UNKNOWN", "QUEUED"} \cup Reported
  /\ dbState \in Reported => StateEvent(dbState) \in accepted
  /\ NoErrors => \A s \in Reported : StateEvent(s) \in accepted => dbState \in Beyond(s)

(* Without failures, what was accepted is on its way, in the queue or has  *)
(* been applied.                                                           *)
Coming(ev) == \E p \in Process : hop[p] # <<>> /\ hop[p][1].to = "publish" /\ hop[p][1].ev = ev

(* As long as nothing is lost, an accepted state is queued, about to be    *)
(* published, or behind the state of the built task.                       *)
FlowInv ==
  (NoErrors /\ losses = 0 /\ wiring.queue # "none") =>
    \A s \in Reported : StateEvent(s) \in accepted =>
      StateEvent(s) \in Queued \/ Coming(StateEvent(s)) \/ built \in Beyond(s)

(* The inductive invariant of BuiltAgrees.                                 *)
PipeInv == StreamInv /\ CreateInv /\ StoredInv /\ FlowInv

(* A valid transition leads further in the order of the states.            *)
LEMMA BeyondStep ==
  ASSUME NEW s \in Reported \ Errors, NEW b \in Beyond(s), NEW c \in Reported \ Errors, ValidateTransition(b, c)
  PROVE  c \in Beyond(s)
BY DEF Reported, Errors, Beyond, ValidateTransition, Terminal

(* Every state is beyond itself.                                           *)
LEMMA BeyondSelf ==
  ASSUME NEW s \in Reported
  PROVE  s \in Beyond(s) /\ Beyond(s) \subseteq Reported
BY DEF Reported, Errors, Beyond

(* States beyond each other are the same: without the errors the life      *)
(* cycle has no cycles.                                                    *)
LEMMA BeyondSame ==
  ASSUME NEW s \in Reported, NEW b \in Reported, b \in Beyond(s), s \in Beyond(b)
  PROVE  b = s
BY DEF Reported, Errors, Beyond

(* A message that is refused is one that the task is already past.         *)
LEMMA RefusedIsPast ==
  ASSUME NEW s \in Reported \ Errors, NEW b \in Reported \ Errors, NEW d \in Beyond(s), d \in Beyond(b),
         ~ValidateTransition(b, s)
  PROVE  b \in Beyond(s)
BY DEF Reported, Errors, Beyond, ValidateTransition, Terminal

(* The kinds of events differ.                                             *)
LEMMA StateEventIs ==
  /\ \A s, r : StateEvent(s) = StateEvent(r) => s = r
  /\ \A s : StateEvent(s) # TaskCreated /\ StateEvent(s) \notin Logs
  /\ TaskCreated \notin Logs
BY DEF StateEvent, TaskCreated, Logs, Output, SystemLog

(* There is one creation event.                                            *)
LEMMA CreatedIs ==
  ASSUME NEW ev \in Event, ev.type = "created"
  PROVE  ev = TaskCreated
<1>1. ev # Output /\ (\A l \in Level : ev # SystemLog(l)) /\ (\A s \in Reported : ev # StateEvent(s))
  <2>1. Output.type = "output"
    BY DEF Output
  <2>2. \A l \in Level : SystemLog(l).type = "syslog"
    BY DEF SystemLog
  <2>3. \A s \in Reported : StateEvent(s).type = "state"
    BY DEF StateEvent
  <2>4. QED
    BY <2>1, <2>2, <2>3
<1>2. QED
  BY <1>1 DEF Event, Logs

(* Nothing new is accepted and nothing gets lost.                          *)
LEMMA FlowKept ==
  ASSUME FlowInv, UNCHANGED <<wiring, accepted>>, losses = 0 \/ losses' # 0,
         \A s \in Reported : StateEvent(s) \in accepted /\ NoErrors /\ wiring.queue # "none" /\ losses' = 0 =>
           /\ StateEvent(s) \in Queued => StateEvent(s) \in Queued' \/ built' \in Beyond(s)
           /\ Coming(StateEvent(s)) => Coming(StateEvent(s))' \/ StateEvent(s) \in Queued'
           /\ built \in Beyond(s) => built' \in Beyond(s)
  PROVE  FlowInv'
<1>1. SUFFICES ASSUME NoErrors', losses' = 0, wiring'.queue # "none", NEW s \in Reported, StateEvent(s) \in accepted'
               PROVE  StateEvent(s) \in Queued' \/ Coming(StateEvent(s))' \/ built' \in Beyond(s)
  BY DEF FlowInv
<1>2. NoErrors /\ losses = 0 /\ wiring.queue # "none" /\ StateEvent(s) \in accepted
  BY <1>1 DEF NoErrors
<1>3. StateEvent(s) \in Queued \/ Coming(StateEvent(s)) \/ built \in Beyond(s)
  BY <1>2 DEF FlowInv
<1>4. QED
  BY <1>1, <1>2, <1>3

(* Beginning an event keeps the invariant.                                 *)
LEMMA BeginPipe ==
  ASSUME PipeInv, NEW p \in Process, Begin(p)
  PROVE  PipeInv'
<1>1. UNCHANGED <<wiring, dbState, accepted, topic, pending, built, losses>> /\ hop[p] = <<>>
  BY DEF Begin
<1>2. PICK ev \in (IF p = "server" THEN ServerEvents ELSE WorkerEvents) \ sentBy[p] :
        /\ sentBy' = [sentBy EXCEPT ![p] = @ \cup ({ev} \ Logs)]
        /\ hop' = [hop EXCEPT ![p] = IF ~Passes(ev) THEN <<>> ELSE Chain(IF p = "server" THEN ServerWriters
                                                                       ELSE WorkerWriters, ev)]
  BY DEF Begin
<1>3. StreamInv'
  BY BeginStep DEF PipeInv
<1>4. PICK h : hop' = [hop EXCEPT ![p] = h] /\ (h # <<>> => h[1].to = "store")
  BY BeginShape DEF PipeInv, StreamInv
<1>5. hop'[p] = h /\ \A q \in Process \ {p} : hop'[q] = hop[q]
  BY <1>4 DEF PipeInv, StreamInv, HopInv
<1>6. ev \in Event /\ (p = "worker" => ev \in WorkerEvents)
  BY <1>2, WorkerEventsAre DEF Process
<1>7. sentBy' \in [Process -> SUBSET Event] /\ sentBy'[p] = sentBy[p] \cup ({ev} \ Logs)
      /\ \A q \in Process \ {p} : sentBy'[q] = sentBy[q]
  BY <1>2, <1>6 DEF PipeInv, CreateInv
<1>8. CreateInv'
  <2>1. CASE p = "worker"
    <3>1. ~Before
      <4>1. SUFFICES ASSUME Before PROVE FALSE
        OBVIOUS
      <4>2. dbState = "UNKNOWN" /\ sentBy["worker"] = {}
        BY <4>1 DEF PipeInv, CreateInv
      <4>3. WorkerEvents = {}
        BY <4>2 DEF WorkerEvents
      <4>4. QED
        BY <1>6, <2>1, <4>3
    <3>2. "server" \in Process \ {p}
      BY <2>1 DEF Process
    <3>3. QED
      BY <1>5, <1>7, <3>1, <3>2 DEF PipeInv, CreateInv, Before
  <2>2. CASE p = "server" /\ TaskCreated \notin sentBy["server"]
    <3>1. ev = TaskCreated
      BY <1>2, <2>2 DEF ServerEvents
    <3>2. TaskCreated \in sentBy'["server"]
      BY <1>7, <2>2, <3>1, StateEventIs
    <3>3. Before /\ "worker" \in Process \ {p}
      BY <2>2 DEF Before, Process
    <3>4. QED
      BY <1>1, <1>5, <1>7, <3>2, <3>3 DEF PipeInv, CreateInv
  <2>3. CASE p = "server" /\ TaskCreated \in sentBy["server"]
    <3>1. ev # TaskCreated
      BY <1>2, <2>3
    <3>2. TaskCreated \in sentBy'["server"]
      BY <1>7, <2>3
    <3>3. hop'["server"] # <<>> => hop'["server"][1].ev = ev
      <4>1. Chain(ServerWriters, ev)[1] = [to |-> "store", ev |-> ev]
        BY <1>6, ChainShape
      <4>2. hop'["server"] = <<>> \/ hop'["server"] = Chain(ServerWriters, ev)
        BY <1>2, <2>3 DEF PipeInv, StreamInv, HopInv
      <4>3. QED
        BY <4>1, <4>2
    <3>4. ~Before'
      BY <3>1, <3>2, <3>3 DEF Before
    <3>5. QED
      BY <1>7, <3>2, <3>4 DEF CreateInv
  <2>4. QED
    BY <2>1, <2>2, <2>3 DEF Process
<1>9. StoredInv'
  BY <1>1 DEF PipeInv, StoredInv, NoErrors
<1>10. FlowInv'
  <2>1. \A e : Coming(e) => Coming(e)'
    BY <1>1, <1>5 DEF Coming
  <2>2. QED
    BY <1>1, <2>1, FlowKept DEF PipeInv, Queued, Unacknowledged
<1>11. QED
  BY <1>3, <1>8, <1>9, <1>10 DEF PipeInv

(* So does a write that fails.                                             *)
LEMMA BreakPipe ==
  ASSUME PipeInv, NEW p \in Process, Break(p)
  PROVE  PipeInv'
<1>1. UNCHANGED <<wiring, dbState, accepted, sentBy, topic, pending, built>> /\ losses' # 0 /\ hop[p] # <<>>
  BY DEF Break, PipeInv, StreamInv, QueueType
<1>2. StreamInv'
  BY BreakStep DEF PipeInv
<1>3. /\ \A q \in Process \ {p} : hop'[q] = hop[q]
      /\ hop'[p] # <<>> => hop'[p][1].to = "publish"
  BY <1>1, AlongShape DEF Break, PipeInv, StreamInv
<1>4. CreateInv'
  <2>1. Before' => Before
    BY <1>1, <1>3 DEF Before, Process
  <2>2. Before => p = "server"
    BY <1>1 DEF PipeInv, CreateInv, Process
  <2>3. TaskCreated \notin sentBy["server"] => p # "server"
    BY <1>1 DEF PipeInv, CreateInv
  <2>4. QED
    BY <1>1, <1>3, <2>1, <2>2, <2>3 DEF PipeInv, CreateInv, Process
<1>5. StoredInv' /\ FlowInv'
  BY <1>1 DEF PipeInv, StoredInv, NoErrors, FlowInv
<1>6. QED
  BY <1>2, <1>4, <1>5 DEF PipeInv

(* So does publishing an event.                                            *)
LEMMA PublishPipe ==
  ASSUME PipeInv, NEW p \in Process, Publish(p)
  PROVE  PipeInv'
<1>1. hop[p] # <<>> /\ hop[p][1].to = "publish" /\ GoOn(p) /\ UNCHANGED <<wiring, dbState, accepted, sentBy, built, losses>>
  BY HeadIs DEF Publish, NextIs, PipeInv, StreamInv
<1>2. StreamInv'
  BY PublishStep DEF PipeInv
<1>3. /\ \A q \in Process \ {p} : hop'[q] = hop[q]
      /\ hop'[p] # <<>> => hop'[p][1].to = "publish"
  BY <1>1, AlongShape DEF PipeInv, StreamInv
<1>4. CreateInv'
  <2>1. Before' => Before
    BY <1>1, <1>3 DEF Before, Process
  <2>2. Before => p = "server"
    BY <1>1 DEF PipeInv, CreateInv, Process
  <2>3. TaskCreated \notin sentBy["server"] => p # "server"
    BY <1>1 DEF PipeInv, CreateInv
  <2>4. QED
    BY <1>1, <1>3, <2>1, <2>2, <2>3 DEF PipeInv, CreateInv, Process
<1>5. StoredInv'
  BY <1>1 DEF PipeInv, StoredInv, NoErrors
<1>6. FlowInv'
  <2>1. Queued \subseteq Queued' /\ (hop[p][1].ev.type = "state" => hop[p][1].ev \in Queued')
    BY PublishAdds DEF PipeInv
  <2>2. ASSUME NEW s \in Reported, Coming(StateEvent(s)) PROVE Coming(StateEvent(s))' \/ StateEvent(s) \in Queued'
    <3>1. PICK q \in Process : hop[q] # <<>> /\ hop[q][1].to = "publish" /\ hop[q][1].ev = StateEvent(s)
      BY <2>2 DEF Coming
    <3>2. CASE q # p
      BY <1>3, <3>1, <3>2 DEF Coming
    <3>3. CASE q = p
      BY <2>1, <3>1, <3>3 DEF StateEvent
    <3>4. QED
      BY <3>2, <3>3
  <2>3. QED
    BY <1>1, <2>1, <2>2, FlowKept DEF PipeInv
<1>7. QED
  BY <1>2, <1>4, <1>5, <1>6 DEF PipeInv

(* So does the write to the database.                                      *)
LEMMA StorePipe ==
  ASSUME PipeInv, NEW p \in Process, StoreEvent(p)
  PROVE  PipeInv'
<1> DEFINE ev == hop[p][1].ev
<1>1. /\ hop[p] # <<>> /\ hop[p][1].to = "store" /\ Carried(p) = ev /\ ev \in Event
      /\ UNCHANGED <<wiring, sentBy, topic, pending, built, losses>>
  BY HeadIs DEF StoreEvent, NextIs, Carried, PipeInv, StreamInv
<1>2. StreamInv'
  BY ChainStoreStep DEF PipeInv
<1>3. GoOn(p) \/ Stop(p)
  BY <1>1 DEF StoreEvent
<1>4. /\ \A q \in Process \ {p} : hop'[q] = hop[q]
      /\ hop'[p] # <<>> => hop'[p][1].to = "publish" /\ hop'[p][1].ev = ev
      /\ GoOn(p) /\ wiring.queue # "none" => hop'[p] # <<>>
  BY <1>1, <1>3, AlongShape DEF PipeInv, StreamInv
<1>5. TaskCreated \notin sentBy["server"] => p # "server"
  BY <1>1 DEF PipeInv, CreateInv
<1>6. Before => p = "server" /\ ev = TaskCreated /\ ~Before'
  BY <1>1, <1>4, <1>5 DEF PipeInv, CreateInv, Before, Process
<1>7. CreateInv'
  <2>1. ~Before'
    BY <1>1, <1>4, <1>6 DEF Before, Process
  <2>2. TaskCreated \in sentBy'["server"]
    BY <2>1 DEF Before
  <2>3. QED
    BY <1>1, <2>1, <2>2 DEF PipeInv, CreateInv
<1>8. \A e : Coming(e) => Coming(e)'
  BY <1>1, <1>4 DEF Coming
<1>9. CASE ev.type = "created"
  <2>1. ev = TaskCreated /\ dbState' = "QUEUED" /\ UNCHANGED accepted
    BY <1>1, <1>9, CreatedIs DEF StoreEvent
  <2>2. p = "server"
    BY <1>1, <2>1 DEF PipeInv, StreamInv, HopInv, Process
  <2>3. accepted = {}
    BY <1>1, <2>1, <2>2 DEF PipeInv, CreateInv, Before
  <2>4. StoredInv' /\ FlowInv'
    BY <2>1, <2>3 DEF StoredInv, FlowInv, Reported, Errors
  <2>5. QED
    BY <1>2, <1>7, <2>4 DEF PipeInv
<1>10. CASE UNCHANGED <<dbState, accepted>>
  <2>1. StoredInv'
    BY <1>10 DEF PipeInv, StoredInv, NoErrors
  <2>2. FlowInv'
    BY <1>1, <1>8, <1>10, FlowKept DEF PipeInv, Queued, Unacknowledged
  <2>3. QED
    BY <1>2, <1>7, <2>1, <2>2 DEF PipeInv
<1>11. CASE /\ ev.type = "state" /\ ValidateTransition(dbState, ev.of)
            /\ dbState' = ev.of /\ accepted' = accepted \cup {ev} /\ GoOn(p)
  <2>1. ev.of \in Reported /\ ev = StateEvent(ev.of)
    BY <1>1, <1>11, StateEvents
  <2>2. ASSUME NoErrors' PROVE NoErrors /\ ev.of \notin Errors
    BY <1>11, <2>1, <2>2 DEF NoErrors
  <2>3. \A s \in Reported : StateEvent(s) \in accepted' => StateEvent(s) \in accepted \/ s = ev.of
    BY <1>11, <2>1, StateEventIs
  <2>4. StoredInv'
    <3>1. ASSUME NoErrors', NEW s \in Reported, StateEvent(s) \in accepted' PROVE ev.of \in Beyond(s)
      <4>1. CASE s = ev.of
        BY <4>1, BeyondSelf
      <4>2. CASE s # ev.of
        <5>1. StateEvent(s) \in accepted /\ NoErrors
          BY <2>2, <2>3, <3>1, <4>2
        <5>2. s \in Reported \ Errors /\ dbState \in Beyond(s)
          BY <3>1, <5>1 DEF NoErrors, PipeInv, StoredInv
        <5>3. QED
          BY <1>11, <2>1, <2>2, <3>1, <5>2, BeyondStep
      <4>3. QED
        BY <4>1, <4>2
    <3>2. QED
      BY <1>11, <2>1, <3>1 DEF StoredInv
  <2>5. FlowInv'
    <3>1. SUFFICES ASSUME NoErrors', losses' = 0, wiring'.queue # "none", NEW s \in Reported, StateEvent(s) \in accepted'
                   PROVE  StateEvent(s) \in Queued' \/ Coming(StateEvent(s))' \/ built' \in Beyond(s)
      BY DEF FlowInv
    <3>2. CASE s = ev.of
      BY <1>1, <1>4, <1>11, <2>1, <3>1, <3>2 DEF Coming
    <3>3. CASE s # ev.of
      <4>1. StateEvent(s) \in accepted /\ NoErrors /\ losses = 0 /\ wiring.queue # "none"
        BY <1>1, <2>2, <2>3, <3>1, <3>3
      <4>2. StateEvent(s) \in Queued \/ Coming(StateEvent(s)) \/ built \in Beyond(s)
        BY <4>1 DEF PipeInv, FlowInv
      <4>3. QED
        BY <1>1, <1>8, <4>2 DEF Queued, Unacknowledged
    <3>4. QED
      BY <3>2, <3>3
  <2>6. QED
    BY <1>2, <1>7, <2>4, <2>5 DEF PipeInv
<1>12. QED
  BY <1>1, <1>9, <1>10, <1>11 DEF StoreEvent

(* So does reading an event into the built task.                           *)
LEMMA ReadPipe ==
  ASSUME PipeInv, ReadKafka \/ ReadPubSub
  PROVE  PipeInv'
<1>1. UNCHANGED <<wiring, dbState, accepted, hop, sentBy>> /\ (losses = 0 \/ losses' # 0)
  <2>1. losses \in Nat
    BY DEF PipeInv, StreamInv, QueueType
  <2>2. UNCHANGED <<wiring, dbState, accepted, hop, sentBy>> /\ (UNCHANGED losses \/ losses' = losses + 1)
    BY DEF ReadKafka, ReadPubSub
  <2>3. QED
    BY <2>1, <2>2
<1>2. StreamInv'
  BY ChainReadStep DEF PipeInv
<1>3. CreateInv' /\ StoredInv'
  BY <1>1 DEF PipeInv, CreateInv, Before, StoredInv, NoErrors
<1>4. PICK ev \in Queued : Build(ev) /\ ev \in Event /\ Queued \ {ev} \subseteq Queued'
  BY ReadTakes DEF PipeInv
<1>5. ev.type = "state" => ev \in accepted /\ ev.of \in Reported /\ ev = StateEvent(ev.of)
  BY <1>4, StateEvents DEF PipeInv, StreamInv, StreamFollowsStore, Queued, Unacknowledged
<1>6. built # "UNKNOWN" => built \in Reported /\ StateEvent(built) \in accepted
  BY StateEventIs DEF PipeInv, StreamInv, StreamFollowsStore, QueueType
<1>7. ASSUME NEW s \in Reported, StateEvent(s) \in accepted, NoErrors
      PROVE  /\ StateEvent(s) \in Queued => StateEvent(s) \in Queued' \/ built' \in Beyond(s)
             /\ Coming(StateEvent(s)) => Coming(StateEvent(s))'
             /\ built \in Beyond(s) => built' \in Beyond(s)
  <2>1. s \in Reported \ Errors /\ dbState \in Beyond(s)
    BY <1>7 DEF NoErrors, PipeInv, StoredInv
  <2>2. built \in Beyond(s) => built' \in Beyond(s)
    <3>1. CASE UNCHANGED built
      BY <3>1
    <3>2. CASE ev.type = "state" /\ ValidateTransition(built, ev.of) /\ built' = ev.of
      <4>1. ev.of \in Reported \ Errors
        BY <1>5, <1>7, <3>2 DEF NoErrors
      <4>2. QED
        BY <2>1, <3>2, <4>1, BeyondStep
    <3>3. QED
      BY <1>4, <3>1, <3>2 DEF Build
  <2>3. ASSUME StateEvent(s) = ev PROVE built' \in Beyond(s)
    <3>1. ev.type = "state" /\ ev.of = s
      BY <2>3 DEF StateEvent
    <3>2. CASE ValidateTransition(built, s)
      BY <1>4, <2>1, <3>1, <3>2, BeyondSelf DEF Build
    <3>3. CASE ~ValidateTransition(built, s)
      <4>1. built # "UNKNOWN"
        BY <2>1, <3>3 DEF ValidateTransition, Reported, Errors
      <4>2. built \in Reported \ Errors /\ dbState \in Beyond(built)
        BY <1>6, <1>7, <4>1 DEF NoErrors, PipeInv, StoredInv
      <4>3. built \in Beyond(s)
        BY <2>1, <3>3, <4>2, RefusedIsPast
      <4>4. QED
        BY <1>4, <3>1, <3>3, <4>3 DEF Build
    <3>4. QED
      BY <3>2, <3>3
  <2>4. Coming(StateEvent(s)) => Coming(StateEvent(s))'
    BY <1>1 DEF Coming
  <2>5. QED
    BY <1>4, <2>2, <2>3, <2>4
<1>8. FlowInv'
  BY <1>1, <1>7, FlowKept DEF PipeInv
<1>9. QED
  BY <1>2, <1>3, <1>8 DEF PipeInv

(* Once every event has come through, the task built from the queue is in  *)
(* the state the database has, however the messages were mixed, reordered  *)
(* or repeated: BuiltAgrees, for a queue of any length (TaskBuilder,       *)
(* ValidateTransition).                                                    *)
THEOREM BuiltCorrect == PipeSpec => []BuiltAgrees
<1>1. PipeInit => PipeInv
  <2> SUFFICES ASSUME PipeInit PROVE PipeInv
    OBVIOUS
  <2>1. CreateInv
    BY DEF PipeInit, CreateInv, Before, Process
  <2>2. StoredInv /\ FlowInv
    BY DEF PipeInit, StoredInv, FlowInv, Reported, Errors
  <2>3. QED
    BY <2>1, <2>2, StreamInit DEF PipeInv
<1>2. PipeInv /\ [PipeNext]_pipeVars => PipeInv'
  <2> SUFFICES ASSUME PipeInv, [PipeNext]_pipeVars PROVE PipeInv'
    OBVIOUS
  <2>1. CASE UNCHANGED pipeVars
    <3>1. StreamInv'
      BY <2>1, StreamStep DEF PipeInv
    <3>2. CreateInv' /\ StoredInv'
      <4>1. UNCHANGED <<sentBy, hop, dbState, accepted>>
        BY <2>1 DEF pipeVars
      <4>2. QED
        BY <4>1 DEF PipeInv, CreateInv, Before, StoredInv, NoErrors
    <3>3. FlowInv'
      BY <2>1 DEF pipeVars, PipeInv, FlowInv, NoErrors, Queued, Coming, Unacknowledged
    <3>4. QED
      BY <3>1, <3>2, <3>3 DEF PipeInv
  <2>2. QED
    BY <2>1, BeginPipe, StorePipe, PublishPipe, BreakPipe, ReadPipe DEF PipeNext
<1>3. PipeInv => BuiltAgrees
  <2>1. SUFFICES ASSUME PipeInv, topic = <<>>, pending = NoMessage, losses = 0, wiring.queue # "none",
                        \A p \in Process : hop[p] = <<>>, NoErrors, dbState \notin {"UNKNOWN", "QUEUED"}
                 PROVE  built = dbState
    BY DEF BuiltAgrees, NoErrors, Errors
  <2>2. Queued = {}
    BY <2>1 DEF Queued, Unacknowledged, NoMessage
  <2>3. dbState \in Reported /\ StateEvent(dbState) \in accepted
    BY <2>1 DEF PipeInv, StoredInv
  <2>4. built \in Beyond(dbState)
    BY <2>1, <2>2, <2>3 DEF PipeInv, FlowInv, Coming
  <2>5. built \in Reported /\ StateEvent(built) \in accepted
    <3>1. built \in Reported
      BY <2>3, <2>4, BeyondSelf
    <3>2. built # "UNKNOWN"
      BY <3>1 DEF Reported, Errors
    <3>3. StreamFollowsStore
      BY <2>1 DEF PipeInv, StreamInv
    <3>4. built # "UNKNOWN" => StateEvent(built) \in accepted
      BY <3>3 DEF StreamFollowsStore
    <3>5. QED
      BY <3>1, <3>2, <3>4
  <2>6. dbState \in Beyond(built)
    BY <2>1, <2>5 DEF PipeInv, StoredInv
  <2>7. QED
    BY <2>3, <2>4, <2>5, <2>6, BeyondSame
<1>4. QED
  BY <1>1, <1>2, <1>3, PTL DEF PipeSpec

-----------------------------------------------------------------------------
(* The tails of the output.                                                *)

(* An event of the log tailer: the tail of one stream.                     *)
TailEvent == [stream : Stream, tail : Seq(Nat)]

(* Where StreamLogTail is: at its select, copying a chunk, or flushing the *)
(* tails, of the last call or on the tick of its timer.                    *)
Tailer ==
  [at : {"select", "over"}] \cup [at : {"copy"}, stream : Stream]
    \cup [at : {"flush"}, stream : Stream, final : BOOLEAN, fired : BOOLEAN]

(* The values the variables take.                                          *)
LogType ==
  /\ streaming \in BOOLEAN
  /\ filled \in [Stream -> Nat]
  /\ handing \in SUBSET Stream
  /\ ring \in [Stream -> Seq(Nat)]
  /\ fresh \in SUBSET Stream
  /\ tailer \in Tailer
  /\ eventch \in Seq(TailEvent)
  /\ writing \in TailEvent \cup {Nothing}
  /\ step \in {"running", "cleanup", "returned"}
  /\ tails \in [Stream -> Seq(Nat)]
  /\ late \in BOOLEAN
  /\ logFaults \in Nat

(* Chunks that the executor's copy has handed over and the tailer has not  *)
(* taken.                                                                  *)
Handed(s) == IF s \in handing THEN 1 ELSE 0

(* Chunks that the tailer has taken and is writing to the ring.            *)
Copying(s) == IF tailer.at = "copy" /\ tailer.stream = s THEN 1 ELSE 0

(* What the ring has: a chunk for every buffer that was copied, and in the *)
(* end the chunk that is in the buffer now.                                *)
RingInv(s) ==
  /\ filled[s] >= Handed(s) + Copying(s)
  /\ LET copied == filled[s] - Handed(s) - Copying(s)
     IN  Len(ring[s]) = IF copied < RingSize THEN copied ELSE RingSize
  /\ filled[s] > 0 /\ Handed(s) = 0 /\ Copying(s) = 0 => ring[s][Len(ring[s])] = filled[s]

(* The newest tail of s on its way to the log is tail: the last one in the *)
(* channel, the one being written, or the one in the log.                  *)
None(s) == \A k \in 1..Len(eventch) : eventch[k].stream # s

(* The given tail is the last one on its way for this stream: the last of  *)
(* its events in the channel, else the one being written, else the one in  *)
(* the database.                                                           *)
Newest(s, tail) ==
  \/ \E k \in 1..Len(eventch) :
       /\ eventch[k] = [stream |-> s, tail |-> tail]
       /\ \A j \in k + 1..Len(eventch) : eventch[j].stream # s
  \/ None(s) /\ writing = [stream |-> s, tail |-> tail]
  \/ None(s) /\ (writing # Nothing => writing.stream # s) /\ tails[s] = tail

(* A stream without new bytes has its ring on the way.                     *)
FreshInv == logFaults = 0 => \A s \in Stream \ fresh : Newest(s, ring[s])

(* The tailer is in its last flush, or past it.                            *)
Final == tailer.at = "over" \/ (tailer.at = "flush" /\ tailer.final)

(* The last flush comes after the last chunk, and leaves nothing new.      *)
EndInv ==
  /\ step # "running" => handing = {}
  /\ Final => step # "running"
  /\ Final /\ ~late /\ (tailer.at = "over" \/ tailer.stream = "stderr") => "stdout" \notin fresh
  /\ tailer.at = "over" /\ ~late => fresh = {}
  /\ step = "returned" => tailer.at = "over" /\ eventch = <<>> /\ writing = Nothing

(* The inductive invariant; without streaming nothing is sent.             *)
LogInv == LogType /\ (streaming => (\A s \in Stream : RingInv(s)) /\ FreshInv /\ EndInv)

(* What ring.Buffer keeps of a sequence of chunks: at most its size, and   *)
(* its last chunk always.                                                  *)
LEMMA LastChunksKept ==
  ASSUME NEW all \in Seq(Nat), Len(all) > 0
  PROVE  /\ LastChunks(all) \in Seq(Nat)
         /\ Len(LastChunks(all)) = IF Len(all) <= RingSize THEN Len(all) ELSE RingSize
         /\ LastChunks(all)[Len(LastChunks(all))] = all[Len(all)]
<1>1. CASE Len(all) <= RingSize
  BY <1>1 DEF LastChunks
<1>2. CASE Len(all) > RingSize
  <2>1. PICK m : m = Len(all) - RingSize + 1
    OBVIOUS
  <2>2. m \in 1..Len(all) /\ Len(all) - m + 1 = RingSize
    BY <1>2, <2>1, RingAssumption
  <2>3. SubSeq(all, m, Len(all)) \in Seq(Nat) /\ Len(SubSeq(all, m, Len(all))) = RingSize
    BY <2>2, RingAssumption
  <2>4. SubSeq(all, m, Len(all))[RingSize] = all[Len(all)]
    BY <2>1, <2>2, <2>3, RingAssumption
  <2>5. LastChunks(all) = SubSeq(all, m, Len(all)) /\ ~(Len(all) <= RingSize)
    BY <1>2, <2>1, RingAssumption DEF LastChunks
  <2>6. QED
    BY <2>3, <2>4, <2>5
<1>3. QED
  BY <1>1, <1>2, RingAssumption

(* One write to a ring grows it by one chunk up to its size, and the chunk *)
(* written is the last one it holds.                                       *)
LEMMA RingStep ==
  ASSUME NEW r \in Seq(Nat), NEW c \in Nat, Len(r) <= RingSize
  PROVE  /\ LastChunks(Append(r, c)) \in Seq(Nat)
         /\ Len(LastChunks(Append(r, c))) = IF Len(r) < RingSize THEN Len(r) + 1 ELSE RingSize
         /\ LastChunks(Append(r, c))[Len(LastChunks(Append(r, c)))] = c
<1>1. Append(r, c) \in Seq(Nat) /\ Len(Append(r, c)) = Len(r) + 1 /\ Append(r, c)[Len(r) + 1] = c
  OBVIOUS
<1>2. Len(Append(r, c)) > 0
  BY <1>1
<1>3. /\ LastChunks(Append(r, c)) \in Seq(Nat)
      /\ Len(LastChunks(Append(r, c))) = IF Len(r) + 1 <= RingSize THEN Len(r) + 1 ELSE RingSize
      /\ LastChunks(Append(r, c))[Len(LastChunks(Append(r, c)))] = c
  BY <1>1, <1>2, LastChunksKept
<1>4. QED
  BY <1>3, RingAssumption

(* Taking, sending and writing events keeps the newest tail of a stream.   *)
LEMMA SendKeeps ==
  ASSUME LogType, NEW e \in TailEvent, eventch' = Append(eventch, e), UNCHANGED <<writing, tails>>,
         NEW s \in Stream, NEW tail \in Seq(Nat),
         (e.stream # s /\ Newest(s, tail)) \/ e = [stream |-> s, tail |-> tail]
  PROVE  Newest(s, tail)'
<1>0. eventch \in Seq(TailEvent) /\ Len(eventch) \in Nat
  BY DEF LogType
<1>1. PICK n \in Nat : n = Len(eventch)
  BY <1>0
<1>2. Len(eventch') = n + 1 /\ eventch'[n + 1] = e /\ \A k \in 1..n : eventch'[k] = eventch[k]
  BY <1>0, <1>1
<1>3. CASE e = [stream |-> s, tail |-> tail]
  <2>1. n + 1 \in 1..Len(eventch') /\ \A j \in n + 1 + 1..Len(eventch') : eventch'[j].stream # s
    BY <1>2
  <2>2. QED
    BY <1>2, <1>3, <2>1 DEF Newest
<1>4. CASE e.stream # s /\ Newest(s, tail)
  <2>1. CASE \E k \in 1..n : /\ eventch[k] = [stream |-> s, tail |-> tail]
                             /\ \A j \in k + 1..n : eventch[j].stream # s
    <3>1. PICK k \in 1..n : /\ eventch[k] = [stream |-> s, tail |-> tail]
                            /\ \A j \in k + 1..n : eventch[j].stream # s
      BY <2>1
    <3>2. k \in 1..Len(eventch') /\ eventch'[k] = [stream |-> s, tail |-> tail]
      BY <1>2, <3>1
    <3>3. \A j \in k + 1..Len(eventch') : eventch'[j].stream # s
      <4>1. \A j \in k + 1..Len(eventch') : (j \in k + 1..n /\ j \in 1..n) \/ j = n + 1
        BY <1>2
      <4>2. QED
        BY <1>2, <1>4, <3>1, <4>1
    <3>4. QED
      BY <3>2, <3>3 DEF Newest
  <2>2. CASE None(s)
    <3>1. None(s)'
      <4>1. \A j \in 1..Len(eventch') : j \in 1..n \/ j = n + 1
        BY <1>2
      <4>2. QED
        BY <1>1, <1>2, <1>4, <2>2, <4>1 DEF None
    <3>2. CASE \E k \in 1..Len(eventch) : eventch[k] = [stream |-> s, tail |-> tail]
      BY <2>2, <3>2 DEF None
    <3>3. QED
      BY <1>4, <3>1, <3>2 DEF Newest
  <2>3. QED
    BY <1>1, <1>4, <2>1, <2>2 DEF Newest
<1>5. QED
  BY <1>3, <1>4

(* Taking the head event out of the channel to write it changes which      *)
(* place the newest tail is in, and not which tail is the newest.          *)
LEMMA TakeKeeps ==
  ASSUME LogType, TakeEvent, NEW s \in Stream, NEW tail \in Seq(Nat), Newest(s, tail)
  PROVE  Newest(s, tail)'
<1>1. PICK n \in Nat : n = Len(eventch) /\ n > 0
  BY DEF TakeEvent, LogType
<1>2. /\ writing = Nothing /\ writing' = eventch[1] /\ UNCHANGED tails
      /\ Len(eventch') = n - 1 /\ \A k \in 1..n - 1 : eventch'[k] = eventch[k + 1]
  BY <1>1 DEF TakeEvent, LogType
<1>3. CASE \E k \in 1..n : /\ eventch[k] = [stream |-> s, tail |-> tail]
                           /\ \A j \in k + 1..n : eventch[j].stream # s
  <2>1. PICK k \in 1..n : /\ eventch[k] = [stream |-> s, tail |-> tail]
                          /\ \A j \in k + 1..n : eventch[j].stream # s
    BY <1>3
  <2>2. \A j \in 1..n - 1 : j >= k => eventch'[j].stream # s
    <3>1. \A j \in 1..n - 1 : j >= k => j + 1 \in k + 1..n
      OBVIOUS
    <3>2. QED
      BY <1>2, <2>1, <3>1
  <2>3. CASE k = 1
    <3>1. None(s)'
      BY <1>2, <2>2, <2>3 DEF None
    <3>2. QED
      BY <1>2, <2>1, <2>3, <3>1 DEF Newest
  <2>4. CASE k > 1
    <3>1. k - 1 \in 1..n - 1 /\ k - 1 + 1 = k
      BY <2>4
    <3>2. k - 1 \in 1..Len(eventch') /\ eventch'[k - 1] = [stream |-> s, tail |-> tail]
      BY <1>2, <2>1, <3>1
    <3>3. \A j \in k - 1 + 1..Len(eventch') : eventch'[j].stream # s
      BY <1>2, <2>2, <2>4
    <3>4. QED
      BY <3>2, <3>3 DEF Newest
  <2>5. QED
    BY <2>3, <2>4
<1>4. CASE None(s) /\ tails[s] = tail
  <2>1. writing'.stream # s
    BY <1>1, <1>2, <1>4 DEF None
  <2>2. None(s)'
    <3>1. \A j \in 1..n - 1 : j + 1 \in 1..n
      OBVIOUS
    <3>2. QED
      BY <1>1, <1>2, <1>4, <3>1 DEF None
  <2>3. QED
    BY <1>2, <1>4, <2>1, <2>2 DEF Newest
<1>5. ~(writing = [stream |-> s, tail |-> tail])
  BY <1>2 DEF Nothing
<1>6. QED
  BY <1>1, <1>3, <1>4, <1>5 DEF Newest

(* Nor does storing it.                                                    *)
LEMMA WriteKeeps ==
  ASSUME LogType, writing # Nothing, writing' = Nothing, UNCHANGED eventch,
         tails' = [tails EXCEPT ![writing.stream] = writing.tail],
         NEW s \in Stream, NEW tail \in Seq(Nat), Newest(s, tail)
  PROVE  Newest(s, tail)'
<1>1. writing \in TailEvent
  BY DEF LogType
<1>2. CASE None(s) /\ writing = [stream |-> s, tail |-> tail]
  BY <1>2 DEF Newest, None, LogType
<1>3. CASE None(s) /\ writing.stream # s /\ tails[s] = tail
  BY <1>1, <1>3 DEF Newest, None, LogType, TailEvent
<1>4. QED
  BY <1>2, <1>3 DEF Newest

(* The places the tailer is sent to are places of its type.                *)
LEMMA TailerTypes ==
  /\ Select \in Tailer
  /\ \A s \in Stream, f, fired \in BOOLEAN : FlushOf(s, f, fired) \in Tailer
  /\ "stdout" \in Stream /\ "stderr" \in Stream
BY DEF Tailer, Select, FlushOf, Stream

(* Every step keeps the types.                                             *)
LEMMA LogTypeStep ==
  ASSUME LogType, [LogNext]_logVars, streaming => \A s \in Stream : RingInv(s)
  PROVE  LogType'
<1>1. ASSUME NEW s \in Stream, CommandWrites(s) PROVE LogType'
  <2>1. Append(ring[s], filled[s] + 1) \in Seq(Nat) /\ Len(Append(ring[s], filled[s] + 1)) > 0
    BY DEF LogType
  <2>2. LastChunks(Append(ring[s], filled[s] + 1)) \in Seq(Nat)
    BY <2>1, LastChunksKept
  <2>3. ring' \in [Stream -> Seq(Nat)] /\ handing' \in SUBSET Stream
    BY <1>1, <2>2 DEF CommandWrites, RingWrite, LogType
  <2>4. filled' \in [Stream -> Nat]
    BY <1>1 DEF CommandWrites, LogType
  <2>5. QED
    BY <1>1, <2>3, <2>4 DEF CommandWrites, LogType
<1>2. CASE CommandReturns
  BY <1>2 DEF CommandReturns, LogType
<1>3. ASSUME NEW s \in Stream, Receive(s) PROVE LogType'
  BY <1>3 DEF Receive, LogType, Tailer
<1>4. CASE CopyChunk
  <2>1. tailer \in [at : {"copy"}, stream : Stream]
    BY <1>4 DEF CopyChunk, LogType, Tailer
  <2>2. PICK s \in Stream : s = tailer.stream
    BY <2>1
  <2>3. Append(ring[s], filled[s]) \in Seq(Nat) /\ Len(Append(ring[s], filled[s])) > 0
    BY DEF LogType
  <2>4. LastChunks(Append(ring[s], filled[s])) \in Seq(Nat)
    BY <2>3, LastChunksKept
  <2>5. tailer' \in Tailer
    BY <1>4, TailerTypes DEF CopyChunk
  <2>6. QED
    BY <1>4, <2>2, <2>4, <2>5 DEF CopyChunk, RingWrite, LogType
<1>5. CASE Tick \/ ContextDone
  BY <1>5, TailerTypes DEF Tick, ContextDone, LogType
<1>6. CASE Flush
  <2>1. tailer \in [at : {"flush"}, stream : Stream, final : BOOLEAN, fired : BOOLEAN]
    BY <1>6 DEF Flush, Send, Drop, NothingNew, LogType, Tailer
  <2>2. \A f \in BOOLEAN : AfterFlush(f) \in Tailer
    BY <2>1 DEF AfterFlush, Tailer, Select, FlushOf, Stream
  <2>3. tailer' \in Tailer
    BY <1>6, <2>1, <2>2 DEF Flush, Send, Drop, NothingNew
  <2>4. [stream |-> tailer.stream, tail |-> ring[tailer.stream]] \in TailEvent
    BY <2>1 DEF TailEvent, LogType
  <2>5. eventch' \in Seq(TailEvent)
    <3>1. eventch \in Seq(TailEvent)
      BY DEF LogType
    <3>2. Append(eventch, [stream |-> tailer.stream, tail |-> ring[tailer.stream]]) \in Seq(TailEvent)
      BY <2>4, <3>1
    <3>3. QED
      BY <1>6, <3>1, <3>2 DEF Flush, Send, Drop, NothingNew
  <2>6. late' \in BOOLEAN
    BY <1>6, <2>1 DEF Flush, Send, Drop, NothingNew, LogType
  <2>7. QED
    BY <1>6, <2>3, <2>5, <2>6 DEF Flush, Send, Drop, NothingNew, LogType
<1>7. CASE TakeEvent
  BY <1>7 DEF TakeEvent, LogType
<1>8. CASE WriteTail
  <2>1. writing \in TailEvent
    BY <1>8 DEF WriteTail, LogType
  <2>2. writing.stream \in Stream /\ writing.tail \in Seq(Nat)
    BY <2>1 DEF TailEvent
  <2>3. PICK s \in Stream, tail \in Seq(Nat) : s = writing.stream /\ tail = writing.tail
    BY <2>2
  <2>5. tails' \in [Stream -> Seq(Nat)]
    BY <1>8, <2>3 DEF WriteTail, LogType
  <2>6. logFaults' \in Nat
    BY <1>8 DEF WriteTail, LogType
  <2>7. QED
    BY <1>8, <2>5, <2>6 DEF WriteTail, LogType
<1>9. CASE StepReturns
  BY <1>9 DEF StepReturns, LogType
<1>10. CASE FlushLogTail
  BY <1>10 DEF FlushLogTail, LogType, Tailer, Stream
<1>11. CASE UNCHANGED logVars
  BY <1>11 DEF logVars, LogType
<1>12. QED
  BY <1>1, <1>2, <1>3, <1>4, <1>5, <1>6, <1>7, <1>8, <1>9, <1>10, <1>11
  DEF LogNext, Tailing, EventWriting

(* Where a step leaves ring, channel, writer and log alone.                *)
LEMMA SameNewest ==
  ASSUME UNCHANGED <<eventch, writing, tails>>, NEW s, NEW tail, Newest(s, tail)
  PROVE  Newest(s, tail)'
BY DEF Newest, None

(* Every chunk is received, copied and in the end in the ring.             *)
LEMMA RingInvStep ==
  ASSUME LogInv, streaming, [LogNext]_logVars, LogType', NEW s \in Stream
  PROVE  RingInv(s)'
<1>1. RingInv(s) /\ LogType
  BY DEF LogInv
<1>2. CASE UNCHANGED <<filled, handing, ring>> /\ tailer.at # "copy" /\ tailer'.at # "copy"
  BY <1>1, <1>2 DEF RingInv, Handed, Copying
<1>3. CASE UNCHANGED <<filled, handing, ring, tailer>>
  BY <1>1, <1>3 DEF RingInv, Handed, Copying
<1>4. ASSUME NEW u \in Stream, CommandWrites(u) PROVE RingInv(s)'
  <2>1. CASE u = s
    BY <1>1, <1>4, <2>1 DEF CommandWrites, RingInv, Handed, Copying, LogInv, LogType
  <2>2. CASE u # s
    <3>1. filled'[s] = filled[s] /\ UNCHANGED <<ring, tailer>> /\ (s \in handing' <=> s \in handing)
      BY <1>1, <1>4, <2>2 DEF CommandWrites, LogType
    <3>2. QED
      BY <1>1, <3>1 DEF RingInv, Handed, Copying
  <2>3. QED
    BY <2>1, <2>2
<1>5. ASSUME NEW u \in Stream, Receive(u) PROVE RingInv(s)'
  <2>1. tailer.at = "select" /\ tailer'.at = "copy" /\ tailer'.stream = u
    BY <1>5 DEF Receive, Select
  <2>2. CASE u = s
    BY <1>1, <1>5, <2>1, <2>2 DEF Receive, RingInv, Handed, Copying, LogType
  <2>3. CASE u # s
    BY <1>1, <1>5, <2>1, <2>3 DEF Receive, RingInv, Handed, Copying, LogType
  <2>4. QED
    BY <2>2, <2>3
<1>6. CASE CopyChunk
  <2>1. tailer.at = "copy" /\ tailer'.at # "copy" /\ tailer.stream \in Stream
    <3>1. tailer.at = "copy" /\ tailer'.at # "copy"
      <4>1. tailer.at = "copy" /\ tailer' \in {Select, FlushOf("stdout", FALSE, FALSE)}
        BY <1>6 DEF CopyChunk
      <4>2. Select.at = "select" /\ FlushOf("stdout", FALSE, FALSE).at = "flush"
        BY DEF Select, FlushOf
      <4>3. QED
        BY <4>1, <4>2
    <3>2. tailer \in Tailer
      BY <1>1 DEF LogType
    <3>3. QED
      BY <3>1, <3>2 DEF Tailer
  <2>2. CASE tailer.stream = s
    <3>1. ring[s] \in Seq(Nat) /\ filled[s] \in Nat /\ Len(ring[s]) <= RingSize
      BY <1>1, RingAssumption DEF LogType, RingInv, Handed, Copying
    <3>2. /\ Len(LastChunks(Append(ring[s], filled[s]))) = IF Len(ring[s]) < RingSize THEN Len(ring[s]) + 1 ELSE RingSize
          /\ LastChunks(Append(ring[s], filled[s]))[Len(LastChunks(Append(ring[s], filled[s])))] = filled[s]
      BY <3>1, RingStep
    <3>3. ring'[s] = LastChunks(Append(ring[s], filled[s])) /\ UNCHANGED <<filled, handing>>
      BY <1>1, <1>6, <2>2 DEF CopyChunk, RingWrite, LogType
    <3>4. Copying(s) = 1 /\ Copying(s)' = 0 /\ Handed(s)' = Handed(s) /\ Handed(s) \in {0, 1}
      BY <2>1, <2>2, <3>3 DEF Copying, Handed
    <3> DEFINE new == LastChunks(Append(ring[s], filled[s]))
               h == Handed(s)
    <3>5. /\ filled[s] >= h + 1
          /\ Len(ring[s]) = IF filled[s] - h - 1 < RingSize THEN filled[s] - h - 1 ELSE RingSize
      BY <1>1, <3>1, <3>4 DEF RingInv
    <3>6. Len(new) = IF filled[s] - h < RingSize THEN filled[s] - h ELSE RingSize
      <4> HIDE DEF new, h
      <4>1. Len(new) = IF Len(ring[s]) < RingSize THEN Len(ring[s]) + 1 ELSE RingSize
        BY <3>2 DEF new
      <4>2. h \in Nat
        BY <3>4 DEF h
      <4>3. QED
        BY <3>1, <3>5, <4>1, <4>2, RingAssumption
    <3>7. ring'[s] = new /\ filled'[s] = filled[s] /\ new[Len(new)] = filled[s]
      BY <3>2, <3>3
    <3>8. h \in {0, 1} /\ Handed(s)' = h /\ Copying(s)' = 0
      BY <3>4
    <3> HIDE DEF new, h
    <3>9. QED
      BY <3>1, <3>5, <3>6, <3>7, <3>8 DEF RingInv
  <2>3. CASE tailer.stream # s
    BY <1>1, <1>6, <2>1, <2>3 DEF CopyChunk, RingWrite, RingInv, Handed, Copying, LogType
  <2>4. QED
    BY <2>2, <2>3
<1>7. CASE Flush
  <2>1. tailer.at = "flush" /\ \A f : AfterFlush(f).at # "copy"
    BY <1>7 DEF Flush, Send, Drop, NothingNew, AfterFlush, FlushOf, Select
  <2>2. QED
    BY <1>2, <1>7, <2>1 DEF Flush, Send, Drop, NothingNew
<1>8. CASE Tick \/ ContextDone
  <2>1. tailer = Select /\ \E b \in BOOLEAN : tailer' = FlushOf("stdout", b, FALSE)
    BY <1>8 DEF Tick, ContextDone
  <2>2. tailer.at # "copy" /\ tailer'.at # "copy"
    BY <2>1 DEF Select, FlushOf
  <2>3. QED
    BY <1>2, <1>8, <2>2 DEF Tick, ContextDone
<1>9. CASE CommandReturns \/ TakeEvent \/ WriteTail \/ StepReturns
  BY <1>3, <1>9 DEF CommandReturns, TakeEvent, WriteTail, StepReturns
<1>10. ~FlushLogTail
  BY DEF FlushLogTail
<1>11. CASE UNCHANGED logVars
  BY <1>3, <1>11 DEF logVars
<1>12. QED
  BY <1>4, <1>5, <1>6, <1>7, <1>8, <1>9, <1>10, <1>11 DEF LogNext, Tailing, EventWriting

(* What is new in a ring stays marked as new until it is sent.             *)
LEMMA FreshInvStep ==
  ASSUME LogInv, streaming, [LogNext]_logVars
  PROVE  FreshInv'
<1>1. LogType /\ FreshInv
  BY DEF LogInv
<1>2. CASE UNCHANGED <<ring, fresh, eventch, writing, tails, logFaults>>
  BY <1>1, <1>2, SameNewest DEF FreshInv
<1>3. ASSUME NEW u \in Stream, CommandWrites(u) PROVE FreshInv'
  BY <1>2, <1>3 DEF CommandWrites
<1>4. ASSUME NEW u \in Stream, Receive(u) PROVE FreshInv'
  BY <1>2, <1>4 DEF Receive
<1>5. CASE CopyChunk
  <2>1. tailer.stream \in fresh' /\ UNCHANGED <<eventch, writing, tails, logFaults>>
    BY <1>5 DEF CopyChunk
  <2>2. \A s \in Stream \ fresh' : s \notin fresh /\ ring'[s] = ring[s]
    BY <1>1, <1>5 DEF CopyChunk, RingWrite, LogType
  <2>3. QED
    BY <1>1, <2>1, <2>2, SameNewest DEF FreshInv
<1>6. CASE Send /\ UNCHANGED <<ring, writing, tails, logFaults>>
  <2>1. tailer.stream \in Stream
    BY <1>6 DEF Send, LogInv, LogType
  <2>2. PICK e \in TailEvent : e = [stream |-> tailer.stream, tail |-> ring[tailer.stream]]
    BY <1>1, <2>1 DEF TailEvent, LogType
  <2>3. eventch' = Append(eventch, e) /\ fresh' = fresh \ {tailer.stream}
    BY <1>6, <2>2 DEF Send
  <2>4. ASSUME logFaults = 0, NEW s \in Stream \ fresh' PROVE Newest(s, ring[s])'
    <3>1. ring[s] \in Seq(Nat) /\ ring'[s] = ring[s]
      BY <1>1, <1>6 DEF LogType
    <3>2. (e.stream # s /\ Newest(s, ring[s])) \/ e = [stream |-> s, tail |-> ring[s]]
      BY <1>1, <2>2, <2>3, <2>4 DEF FreshInv
    <3>3. QED
      BY <1>1, <1>6, <2>3, <3>1, <3>2, SendKeeps
  <2>5. QED
    BY <1>6, <2>4 DEF FreshInv
<1>7. CASE Flush
  BY <1>2, <1>6, <1>7 DEF Flush, Drop, NothingNew
<1>8. CASE Tick \/ ContextDone
  BY <1>2, <1>8 DEF Tick, ContextDone
<1>9. CASE CommandReturns \/ StepReturns
  BY <1>2, <1>9 DEF CommandReturns, StepReturns
<1>10. CASE TakeEvent
  <2>1. UNCHANGED <<ring, fresh, logFaults>>
    BY <1>10 DEF TakeEvent
  <2>2. QED
    BY <1>1, <1>10, <2>1, TakeKeeps DEF FreshInv, LogType
<1>11. CASE WriteTail
  <2>1. UNCHANGED <<ring, fresh, eventch>> /\ writing # Nothing /\ writing' = Nothing
    BY <1>11 DEF WriteTail
  <2>2. CASE logFaults' = logFaults + 1
    BY <1>1, <2>2 DEF FreshInv, LogType
  <2>3. CASE tails' = [tails EXCEPT ![writing.stream] = writing.tail] /\ UNCHANGED logFaults
    BY <1>1, <2>1, <2>3, WriteKeeps DEF FreshInv, LogType
  <2>4. QED
    BY <1>11, <2>2, <2>3 DEF WriteTail
<1>12. ~FlushLogTail
  BY DEF FlushLogTail
<1>13. CASE UNCHANGED logVars
  BY <1>2, <1>13 DEF logVars
<1>14. QED
  BY <1>3, <1>4, <1>5, <1>7, <1>8, <1>9, <1>10, <1>11, <1>12, <1>13 DEF LogNext, Tailing, EventWriting

(* Every step keeps what is known of a run whose executor has ended.       *)
LEMMA EndInvStep ==
  ASSUME LogInv, streaming, [LogNext]_logVars
  PROVE  EndInv'
<1>1. LogType /\ EndInv
  BY DEF LogInv
<1>2. ASSUME NEW u \in Stream, CommandWrites(u) PROVE EndInv'
  BY <1>1, <1>2 DEF CommandWrites, EndInv, Final
<1>3. CASE CommandReturns
  BY <1>1, <1>3 DEF CommandReturns, EndInv, Final
<1>4. ASSUME NEW u \in Stream, Receive(u) PROVE EndInv'
  BY <1>1, <1>4 DEF Receive, EndInv, Final, Select
<1>5. CASE CopyChunk
  <2>1. /\ tailer.at = "copy" /\ tailer' \in {Select, FlushOf("stdout", FALSE, FALSE)}
        /\ UNCHANGED <<handing, step>>
    BY <1>5 DEF CopyChunk
  <2>2. tailer'.at \in {"select", "flush"} /\ ~Final'
    BY <2>1 DEF Final, Select, FlushOf
  <2>3. step' # "returned" /\ (step' # "running" => handing' = {})
    BY <1>1, <2>1 DEF EndInv
  <2>4. QED
    BY <2>2, <2>3 DEF EndInv
<1>6. CASE Tick \/ ContextDone
  <2>1. /\ tailer.at = "select" /\ tailer'.at = "flush" /\ tailer'.stream = "stdout"
        /\ tailer'.final = FALSE \/ step = "cleanup"
    <3>1. CASE Tick
      BY <3>1 DEF Tick, Select, FlushOf
    <3>2. CASE ContextDone
      BY <3>2 DEF ContextDone, Select, FlushOf
    <3>3. QED
      BY <1>6, <3>1, <3>2
  <2>2. UNCHANGED <<handing, step, eventch, writing>>
    BY <1>6 DEF Tick, ContextDone
  <2>3. QED
    BY <1>1, <2>1, <2>2 DEF EndInv, Final
<1>7. CASE Flush
  <2>1. tailer \in [at : {"flush"}, stream : Stream, final : BOOLEAN, fired : BOOLEAN]
    BY <1>1, <1>7 DEF Flush, Send, Drop, NothingNew, LogType, Tailer
  <2>2. \E f : tailer' = AfterFlush(f)
    BY <1>7 DEF Flush, Send, Drop, NothingNew
  <2>3. /\ tailer.stream = "stdout" => tailer'.at = "flush" /\ tailer'.stream = "stderr" /\ tailer'.final = tailer.final
        /\ tailer.stream = "stderr" /\ tailer.final => tailer'.at = "over"
        /\ tailer.stream = "stderr" /\ ~tailer.final => tailer'.at = "select"
        /\ tailer.stream \in {"stdout", "stderr"}
    BY <2>1, <2>2 DEF AfterFlush, FlushOf, Select, Stream
  <2>4. /\ UNCHANGED <<handing, step>> /\ step # "returned"
        /\ fresh' \in {fresh, fresh \ {tailer.stream}}
        /\ tailer.final /\ ~late' => ~late /\ tailer.stream \notin fresh'
    BY <1>1, <1>7, <2>1 DEF Flush, Send, Drop, NothingNew, EndInv
  <2>5. Final' => Final /\ tailer.final
    BY <2>1, <2>3 DEF Final
  <2>6. Final' /\ ~late' => "stdout" \notin fresh'
    BY <1>1, <2>1, <2>3, <2>4, <2>5 DEF EndInv
  <2>7. tailer'.at = "over" /\ ~late' => fresh' = {}
    <3>1. tailer'.at = "over" => Final' /\ tailer.stream = "stderr" /\ tailer.final
      BY <2>3, <2>5 DEF Final
    <3>2. fresh' \subseteq {"stdout", "stderr"}
      BY <1>1, <2>4 DEF LogType, Stream
    <3>3. QED
      BY <2>4, <2>6, <3>1, <3>2
  <2>8. QED
    BY <1>1, <2>1, <2>3, <2>4, <2>5, <2>6, <2>7 DEF EndInv
<1>8. CASE TakeEvent
  BY <1>1, <1>8 DEF TakeEvent, EndInv, Final
<1>9. CASE WriteTail
  BY <1>1, <1>9 DEF WriteTail, EndInv, Final
<1>10. CASE StepReturns
  BY <1>1, <1>10 DEF StepReturns, EndInv, Final
<1>11. ~FlushLogTail
  BY DEF FlushLogTail
<1>12. CASE UNCHANGED logVars
  BY <1>1, <1>12 DEF logVars, EndInv, Final
<1>13. QED
  BY <1>2, <1>3, <1>4, <1>5, <1>6, <1>7, <1>8, <1>9, <1>10, <1>11, <1>12 DEF LogNext, Tailing, EventWriting

(* A step that has returned has left the tail of each stream in the log,   *)
(* up to the very last chunk, whichever events were dropped on the way,    *)
(* unless a write failed or the last flush met a full channel: FinalTails, *)
(* for any number of chunks, any size of the ring and of the channel       *)
(* (StreamLogTail).                                                        *)
THEOREM TailsCorrect == LogSpec => []FinalTails
<1>1. LogInit => LogInv
  <2> SUFFICES ASSUME LogInit PROVE LogInv
    OBVIOUS
  <2>1. LogType
    <3>1. <<>> \in Seq(Nat) /\ <<>> \in Seq(TailEvent)
      OBVIOUS
    <3>2. QED
      BY <3>1, TailerTypes DEF LogInit, LogType, Nothing
  <2>2. \A s \in Stream : RingInv(s)
    BY RingAssumption DEF LogInit, RingInv, Handed, Copying, Select
  <2>3. FreshInv
    BY DEF LogInit, FreshInv, Newest, None
  <2>4. EndInv
    BY DEF LogInit, EndInv, Final, Select
  <2>5. QED
    BY <2>1, <2>2, <2>3, <2>4 DEF LogInv
<1>2. LogInv /\ [LogNext]_logVars => LogInv'
  <2> SUFFICES ASSUME LogInv, [LogNext]_logVars PROVE LogInv'
    OBVIOUS
  <2>1. LogType'
    BY LogTypeStep DEF LogInv
  <2>2. streaming' = streaming
    BY DEF LogNext, Tailing, EventWriting, CommandWrites, CommandReturns, Receive, CopyChunk, Tick,
           ContextDone, Flush, TakeEvent, WriteTail, StepReturns, FlushLogTail, logVars
  <2>3. QED
    BY <2>1, <2>2, RingInvStep, FreshInvStep, EndInvStep DEF LogInv
<1>3. LogInv => FinalTails
  <2> SUFFICES ASSUME LogInv, streaming, step = "returned", logFaults = 0, ~late, NEW s \in Stream
               PROVE  /\ tails[s] = ring[s]
                      /\ Len(ring[s]) = IF filled[s] < RingSize THEN filled[s] ELSE RingSize
                      /\ filled[s] > 0 => ring[s][Len(ring[s])] = filled[s]
    BY DEF FinalTails
  <2>1. /\ tailer.at = "over" /\ eventch = <<>> /\ writing = Nothing
        /\ handing = {} /\ fresh = {}
    BY DEF LogInv, EndInv
  <2>2. tails[s] = ring[s]
    <3>1. Newest(s, ring[s])
      BY <2>1 DEF LogInv, FreshInv
    <3>2. Len(eventch) = 0 /\ writing # [stream |-> s, tail |-> ring[s]]
      BY <2>1 DEF Nothing
    <3>3. QED
      BY <3>1, <3>2 DEF Newest
  <2>3. Handed(s) = 0 /\ Copying(s) = 0 /\ filled[s] \in Nat
    BY <2>1 DEF Handed, Copying, LogInv, LogType
  <2>4. RingInv(s)
    BY DEF LogInv
  <2>5. /\ Len(ring[s]) = IF filled[s] < RingSize THEN filled[s] ELSE RingSize
        /\ filled[s] > 0 => ring[s][Len(ring[s])] = filled[s]
    BY <2>3, <2>4, RingAssumption DEF RingInv
  <2>6. QED
    BY <2>2, <2>5
<1>4. QED
  BY <1>1, <1>2, <1>3, PTL DEF LogSpec
=============================================================================

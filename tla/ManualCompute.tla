--------------------------- MODULE ManualCompute ---------------------------
(***************************************************************************)
(* Funnel's own scheduler (compute/scheduler): the scheduling loop of the  *)
(* server, the node processes that pick up assigned tasks and run workers, *)
(* and the Nodes bucket of BoltDB through which they communicate.          *)
(*                                                                         *)
(* Every database call is one step; what the scheduler and the nodes keep  *)
(* between two calls is a copy that may be stale.  Tasks are numbered in   *)
(* the order of their ids, which is the order of the queue.  Resources are *)
(* abstracted to cpus, the list of a node's task ids, which holds an id    *)
(* twice when a task is assigned twice, to a set.  Node ids are never      *)
(* reused (GenNodeID).                                                     *)
(***************************************************************************)
EXTENDS TaskStates, Integers, FiniteSets, FiniteSetsExt

CONSTANTS
  NTask,     \* number of tasks
  Node,      \* node ids
  Capacity,  \* cpus of a node
  Request,   \* cpus each task asks for
  Chunk,     \* Scheduler.ScheduleChunk
  Outcome,   \* the terminal states a worker may end its task in
  MaxEnv     \* bound: disturbances from outside in one behaviour

Task == 1..NTask

ASSUME ConstantsAssumption ==
  /\ NTask \in Nat /\ Chunk \in Nat /\ Capacity \in Nat /\ MaxEnv \in Nat
  /\ Request \in [Task -> Nat]
  /\ Outcome \subseteq Terminal

VARIABLES
  taskState,  \* stored task states; the queue is the QUEUED ones
  nodes,      \* the Nodes bucket
  spc,        \* where the scheduling loop is
  supdated,   \* CheckNodes: the changed node records still to be handled
  squeue,     \* Schedule: the tasks read from the queue, still to be placed
  soffer,     \* Schedule: the offer being acted on
  npc,        \* where NodeProcess.Run is
  nstate,     \* NodeProcess.state
  nctx,       \* the context of NodeProcess.Run is done
  nstopping,  \* the final sync is under way
  timer,      \* the idle timer is running
  drained,    \* the drained channel is closed
  nseen,      \* sync: task ids of the record it read
  runset,     \* NodeProcess.workers
  wpc,        \* where runTask of each node and task is
  wseen,      \* runTask: the record read in order to remove the task from it
  missed,     \* history: the tasks for which a state write of Schedule failed
  env         \* disturbances so far

dbVars == <<taskState, nodes>>
schedVars == <<spc, supdated, squeue, soffer, missed>>
nodeVars == <<npc, nstate, nctx, nstopping, timer, drained, nseen>>
workVars == <<runset, wpc, wseen>>
vars == <<taskState, nodes, spc, supdated, squeue, soffer, npc, nstate, nctx, nstopping, timer,
          drained, nseen, runset, wpc, wseen, missed, env>>

(* No node record.  In a stored one `stale` says that its LastPing is      *)
(* further back than the timeout that applies to its state.  Versions are  *)
(* 0: no code sets one.                                                    *)
None == [state |-> "NONE"]

(* What a copy of a record is used for: PutNode recomputes the rest.       *)
CopyOf(rec) == [state |-> rec.state, ids |-> rec.ids, version |-> rec.version]

(* The tasks are in the given states, the scheduling loop and the node     *)
(* processes at the given places, no node is registered, and part of the   *)
(* bound is used up.                                                       *)
Start(states, loop, places, used) ==
  /\ taskState = states
  /\ nodes = [n \in Node |-> None]
  /\ spc = loop /\ supdated = <<>> /\ squeue = {} /\ soffer = None
  /\ npc = places
  /\ nstate = [n \in Node |-> "ALIVE"]
  /\ nctx = [n \in Node |-> FALSE]
  /\ nstopping = [n \in Node |-> FALSE]
  /\ timer = [n \in Node |-> FALSE]
  /\ drained = [n \in Node |-> FALSE]
  /\ nseen = [n \in Node |-> {}]
  /\ runset = [n \in Node |-> {}]
  /\ wpc = [n \in Node |-> [t \in Task |-> "none"]]
  /\ wseen = [n \in Node |-> [t \in Task |-> None]]
  /\ missed = {}
  /\ env = used

Init == Start([t \in Task |-> "QUEUED"], "offer", [n \in Node |-> "loop"], 0)

(* One of the disturbances the bound counts.                               *)
Disturb == env < MaxEnv /\ env' = env + 1
-----------------------------------------------------------------------------
(* A TASK_STATE event.                                                     *)
WriteState(t, s) ==
  taskState' = [taskState EXCEPT ![t] = IF TransitionAllowed(@, s) THEN s ELSE @]

(* The same from Schedule, where an error is at most logged.               *)
WriteOrMiss(t, s) ==
  \/ WriteState(t, s) /\ UNCHANGED <<missed, env>>
  \/ Disturb /\ missed' = missed \cup {t} /\ UNCHANGED taskState

(* AvailableResources: what the tasks that are not terminal leave free.    *)
AvailableResources(ids) ==
  LET used == MapThenSumSet(LAMBDA t : Request[t], {t \in ids : ~TerminalState(taskState[t])})
  IN  IF used >= Capacity THEN 0 ELSE Capacity - used

(* PutNode refuses a write when the stored version is not 0 and differs.   *)
Outdated(n, rec) == nodes[n] # None /\ nodes[n].version # 0 /\ rec.version # nodes[n].version

(* BoltDB.PutNode: UpdateNode recomputes what is available and sets        *)
(* LastPing to now.                                                        *)
PutNode(n, rec) ==
  LET updated == [state |-> rec.state, ids |-> rec.ids, avail |-> AvailableResources(rec.ids),
                  stale |-> FALSE, version |-> rec.version]
  IN  nodes' = IF Outdated(n, rec) THEN nodes ELSE [nodes EXCEPT ![n] = updated]

(* BoltDB.GetNode as the node processes use it: the tasks of a node, none  *)
(* when it is not found.                                                   *)
GetNode(n) == IF nodes[n] = None THEN {} ELSE nodes[n].ids

(* BoltDB.ListNodes: the nodes in the bucket.                              *)
Listed == {n \in Node : nodes[n] # None}

(* The ping, init and dead timeouts: enough time has passed since LastPing.*)
PingTimeout(n) ==
  /\ nodes[n] # None /\ ~nodes[n].stale
  /\ IF npc[n] = "dead" THEN UNCHANGED env ELSE Disturb
  /\ nodes' = [nodes EXCEPT ![n].stale = TRUE]
  /\ UNCHANGED <<taskState, schedVars, nodeVars, workVars>>

(* CancelTask of the server; the compute backend of the scheduler ignores  *)
(* the cancel event, so the database is all that changes.                  *)
CancelTask(t) ==
  /\ Disturb
  /\ ~TerminalState(taskState[t])
  /\ WriteState(t, "CANCELED")
  /\ UNCHANGED <<nodes, schedVars, nodeVars, workVars>>
-----------------------------------------------------------------------------
(* UpdateNodeState: the record with its new state.                         *)
Aged(rec) ==
  CASE rec.state = "GONE" \/ (rec.state = "DEAD" /\ rec.stale) -> [rec EXCEPT !.state = "GONE"]
    [] rec.state \in {"ALIVE", "DRAIN"} /\ rec.stale -> [rec EXCEPT !.state = "DEAD"]
    [] OTHER -> rec

(* A tick of Schedule.  CheckNodes lists the nodes; those that are gone,   *)
(* or whose state changes by their age, are handled below, from this copy. *)
(* When the list cannot be read Schedule goes on with the queue.           *)
ListNodes ==
  /\ spc = "offer" /\ squeue = {}
  /\ \/ LET upd == {n \in Listed : nodes[n].state = "GONE" \/ Aged(nodes[n]) # nodes[n]}
        IN  supdated' = [n \in upd |-> CopyOf(Aged(nodes[n]))] /\ UNCHANGED env
     \/ Disturb /\ supdated' = <<>>
  /\ spc' = "check"
  /\ UNCHANGED <<dbVars, squeue, soffer, missed, nodeVars, workVars>>

Handled(n) == supdated' = [m \in DOMAIN supdated \ {n} |-> supdated[m]]

(* A node that is gone: its tasks are ended one by one, the error of a     *)
(* failed write being ignored, ...                                         *)
EndTaskOfGoneNode(n) ==
  /\ spc = "check" /\ n \in DOMAIN supdated
  /\ supdated[n].state = "GONE"
  /\ \E t \in supdated[n].ids :
       /\ WriteOrMiss(t, "SYSTEM_ERROR")
       /\ supdated' = [supdated EXCEPT ![n].ids = @ \ {t}]
  /\ UNCHANGED <<nodes, spc, squeue, soffer, nodeVars, workVars>>

(* Mutant: the node is deleted before its tasks are ended.                 *)
DeleteNodeFirst(n) ==
  /\ spc = "check" /\ n \in DOMAIN supdated
  /\ supdated[n].state = "GONE"
  /\ nodes' = [nodes EXCEPT ![n] = None]
  /\ Handled(n)
  /\ UNCHANGED <<taskState, spc, squeue, soffer, missed, nodeVars, workVars, env>>

(* ... then it is deleted, whatever its record says by now.                *)
DeleteNode(n) ==
  /\ spc = "check" /\ n \in DOMAIN supdated
  /\ supdated[n].state = "GONE" /\ supdated[n].ids = {}
  /\ nodes' = [nodes EXCEPT ![n] = None]
  /\ Handled(n)
  /\ UNCHANGED <<taskState, spc, squeue, soffer, missed, nodeVars, workVars, env>>

MarkNodeDead(n) ==
  /\ spc = "check" /\ n \in DOMAIN supdated
  /\ supdated[n].state # "GONE"
  /\ PutNode(n, supdated[n])
  /\ Handled(n)
  /\ UNCHANGED <<taskState, spc, squeue, soffer, missed, nodeVars, workVars, env>>

(* A failed DeleteNode or PutNode ends CheckNodes: the rest of the changed *)
(* records waits for the next round.                                       *)
CheckNodesFails ==
  /\ Disturb
  /\ spc = "check"
  /\ \E n \in DOMAIN supdated : supdated[n].state = "GONE" => supdated[n].ids = {}
  /\ supdated' = <<>>
  /\ UNCHANGED <<dbVars, spc, squeue, soffer, missed, nodeVars, workVars>>

(* ReadQueue: the first Chunk queued tasks.                                *)
FirstQueued(k) ==
  LET queued == {t \in Task : taskState[t] = "QUEUED"}
  IN  {t \in queued : Cardinality({u \in queued : u < t}) < k}

ReadQueue ==
  /\ spc = "check" /\ DOMAIN supdated = {}
  /\ squeue' = FirstQueued(Chunk)
  /\ spc' = "offer"
  /\ UNCHANGED <<dbVars, supdated, soffer, missed, nodeVars, workVars, env>>

(* Mutant: resources are not compared.                                     *)
MatchAlive(rec, t) == rec # None /\ rec.state = "ALIVE"

(* ResourcesFit, NotDead and Alive, the predicates a node must satisfy.    *)
Match(rec, t) ==
  /\ rec # None
  /\ rec.state = "ALIVE"
  /\ rec.avail > 0 /\ rec.avail >= Request[t]

(* GetOffer for the next task: any matching node may score best.           *)
GetOffer(t) ==
  /\ spc = "offer" /\ t \in squeue /\ \A u \in squeue : t <= u
  /\ \E n \in Node :
       /\ Match(nodes[n], t)
       /\ soffer' = [node |-> n, task |-> t, rec |-> [CopyOf(nodes[n]) EXCEPT !.ids = @ \cup {t}]]
  /\ spc' = "put"
  /\ UNCHANGED <<dbVars, supdated, squeue, missed, nodeVars, workVars, env>>

(* Mutant: the first task without an offer ends the round.                 *)
NoOfferStops(t) ==
  /\ spc = "offer" /\ t \in squeue /\ \A u \in squeue : t <= u
  /\ \A n \in Node : ~Match(nodes[n], t)
  /\ squeue' = {}
  /\ UNCHANGED <<dbVars, spc, supdated, soffer, missed, nodeVars, workVars, env>>

(* No node matches, or the nodes cannot be listed: on to the next task.    *)
NoOffer(t) ==
  /\ spc = "offer" /\ t \in squeue /\ \A u \in squeue : t <= u
  /\ IF \A n \in Node : ~Match(nodes[n], t) THEN UNCHANGED env ELSE Disturb
  /\ squeue' = squeue \ {t}
  /\ UNCHANGED <<dbVars, spc, supdated, soffer, missed, nodeVars, workVars>>

(* The task is added to the node, and after that marked as initializing.   *)
(* A refused or failed PutNode skips the task.                             *)
AssignTask ==
  /\ spc = "put"
  /\ \/ /\ ~Outdated(soffer.node, soffer.rec)
        /\ PutNode(soffer.node, soffer.rec)
        /\ spc' = "init" /\ UNCHANGED <<squeue, soffer, env>>
     \/ /\ IF Outdated(soffer.node, soffer.rec) THEN UNCHANGED env ELSE Disturb
        /\ spc' = "offer" /\ squeue' = squeue \ {soffer.task} /\ soffer' = None
        /\ UNCHANGED nodes
  /\ UNCHANGED <<taskState, supdated, missed, nodeVars, workVars>>

(* Mutant: the task is not marked.                                         *)
MarkInitializingLost ==
  /\ spc = "init"
  /\ squeue' = squeue \ {soffer.task}
  /\ soffer' = None
  /\ spc' = "offer"
  /\ UNCHANGED <<taskState, nodes, supdated, missed, nodeVars, workVars, env>>

(* When this write fails the task stays queued, and is assigned again.     *)
MarkInitializing ==
  /\ spc = "init"
  /\ WriteOrMiss(soffer.task, "INITIALIZING")
  /\ squeue' = squeue \ {soffer.task}
  /\ soffer' = None
  /\ spc' = "offer"
  /\ UNCHANGED <<nodes, supdated, nodeVars, workVars>>

-----------------------------------------------------------------------------
(* NodeProcess.Run: at its start, at every tick and when it stops the node *)
(* syncs.  sync reads the node; one not found is as good as an empty one.  *)
SyncGet(n) ==
  /\ npc[n] \in {"loop", "stop"}
  /\ nseen' = [nseen EXCEPT ![n] = GetNode(n)]
  /\ npc' = [npc EXCEPT ![n] = "start"]
  /\ UNCHANGED <<dbVars, schedVars, nstate, nctx, nstopping, timer, drained, workVars, env>>

(* runSet.Add of all ids: which of them are added.                         *)
Add(n, ids) == ids \ runset[n]

(* The ids whose runSet.Add succeeds get a worker.                         *)
SyncStart(n) ==
  /\ npc[n] = "start"
  /\ LET new == Add(n, nseen[n])
     IN  /\ runset' = [runset EXCEPT ![n] = @ \cup new]
         /\ wpc' = [wpc EXCEPT ![n] = [t \in Task |-> IF t \in new THEN "work" ELSE @[t]]]
  /\ npc' = [npc EXCEPT ![n] = "put"]
  /\ UNCHANGED <<dbVars, schedVars, nstate, nctx, nstopping, timer, drained, nseen, wseen, env>>

(* The process ends, and its goroutines with it.                           *)
Killed(n) ==
  /\ npc' = [npc EXCEPT ![n] = "dead"]
  /\ nstate' = [nstate EXCEPT ![n] = "ALIVE"]
  /\ nctx' = [nctx EXCEPT ![n] = FALSE]
  /\ nstopping' = [nstopping EXCEPT ![n] = FALSE]
  /\ timer' = [timer EXCEPT ![n] = FALSE]
  /\ drained' = [drained EXCEPT ![n] = FALSE]
  /\ nseen' = [nseen EXCEPT ![n] = {}]
  /\ runset' = [runset EXCEPT ![n] = {}]
  /\ wpc' = [wpc EXCEPT ![n] = [t \in Task |-> "none"]]
  /\ wseen' = [wseen EXCEPT ![n] = [t \in Task |-> None]]

(* What follows a sync.  The final one closes the connection.  After the   *)
(* others checkIdleTimer and checkDrain look at the workers; checkDrain    *)
(* panics when it closes a channel that is closed already.                 *)
Synced(n) ==
  LET empty == runset[n] = {}
  IN  \/ /\ nstopping[n]
         /\ npc' = [npc EXCEPT ![n] = "closed"]
         /\ nseen' = [nseen EXCEPT ![n] = {}]
         /\ UNCHANGED <<nstate, nctx, nstopping, timer, drained, workVars>>
      \/ /\ ~nstopping[n] /\ ~(empty /\ nstate[n] = "DRAIN" /\ drained[n])
         /\ timer' = [timer EXCEPT ![n] = empty /\ nstate[n] = "ALIVE"]
         /\ drained' = [drained EXCEPT ![n] = @ \/ (empty /\ nstate[n] = "DRAIN")]
         /\ npc' = [npc EXCEPT ![n] = "loop"]
         /\ nseen' = [nseen EXCEPT ![n] = {}]
         /\ UNCHANGED <<nstate, nctx, nstopping, workVars>>
      \/ /\ ~nstopping[n] /\ empty /\ nstate[n] = "DRAIN" /\ drained[n]
         /\ Killed(n)

(* The record goes back with the ids that were read.                       *)
SyncPut(n) ==
  /\ npc[n] = "put"
  /\ PutNode(n, [state |-> nstate[n], ids |-> nseen[n], version |-> 0])
  /\ Synced(n)
  /\ UNCHANGED <<taskState, schedVars, env>>

(* The server cannot be reached, when reading or when writing.             *)
SyncFails(n) ==
  /\ Disturb
  /\ npc[n] \in {"loop", "stop", "put"}
  /\ Synced(n)
  /\ UNCHANGED <<dbVars, schedVars>>

(* The idle timer or the drained channel cancels the context.              *)
CancelRun(n) ==
  /\ Disturb
  /\ npc[n] = "loop" /\ ~nctx[n]
  /\ timer[n] \/ drained[n]
  /\ nctx' = [nctx EXCEPT ![n] = TRUE]
  /\ UNCHANGED <<dbVars, schedVars, npc, nstate, nstopping, timer, drained, nseen, workVars>>

(* The context is done: the final sync announces that the node is gone.    *)
StopNode(n) ==
  /\ npc[n] = "loop" /\ nctx[n]
  /\ timer' = [timer EXCEPT ![n] = FALSE]
  /\ nstate' = [nstate EXCEPT ![n] = "GONE"]
  /\ nstopping' = [nstopping EXCEPT ![n] = TRUE]
  /\ npc' = [npc EXCEPT ![n] = "stop"]
  /\ UNCHANGED <<dbVars, schedVars, nctx, drained, nseen, workVars, env>>

(* The connection is closed; workers.Wait ends when all are done or late.  *)
ExitNode(n) ==
  /\ npc[n] = "closed"
  /\ Killed(n)
  /\ UNCHANGED <<dbVars, schedVars, env>>

(* From outside: SIGTERM, SIGHUP (Drain), and the death of the process.    *)
Running(n) == npc[n] # "dead"

Signal(n) ==
  /\ Disturb
  /\ Running(n) /\ ~nctx[n]
  /\ nctx' = [nctx EXCEPT ![n] = TRUE]
  /\ UNCHANGED <<dbVars, schedVars, npc, nstate, nstopping, timer, drained, nseen, workVars>>

Drain(n) ==
  /\ Disturb
  /\ Running(n) /\ nstate[n] # "DRAIN"
  /\ nstate' = [nstate EXCEPT ![n] = "DRAIN"]
  /\ UNCHANGED <<dbVars, schedVars, npc, nctx, nstopping, timer, drained, nseen, workVars>>

CrashNode(n) ==
  /\ Disturb
  /\ Running(n)
  /\ Killed(n)
  /\ UNCHANGED <<dbVars, schedVars>>
-----------------------------------------------------------------------------
(* runTask: the worker (module Worker) reports that it is under way, ...   *)
WorkerReports(n, t) ==
  /\ wpc[n][t] = "work"
  /\ \E s \in {"INITIALIZING", "RUNNING"} : TransitionAllowed(taskState[t], s) /\ WriteState(t, s)
  /\ UNCHANGED <<nodes, schedVars, nodeVars, workVars, env>>

(* ... and ends: it could not be made or could not report, or writes how   *)
(* the task ended.                                                         *)
WorkerEnds(n, t) ==
  /\ wpc[n][t] = "work"
  /\ UNCHANGED taskState \/ \E s \in Outcome : WriteState(t, s)
  /\ wpc' = [wpc EXCEPT ![n][t] = "remove"]
  /\ UNCHANGED <<nodes, schedVars, nodeVars, runset, wseen, env>>

(* Until it succeeds, it takes the task out of the node's record, ...      *)
RemoveGet(n, t) ==
  /\ wpc[n][t] = "remove" /\ npc[n] # "closed"
  /\ nodes[n] # None
  /\ wseen' = [wseen EXCEPT ![n][t] = CopyOf(nodes[n])]
  /\ wpc' = [wpc EXCEPT ![n][t] = "put"]
  /\ UNCHANGED <<dbVars, schedVars, nodeVars, runset, env>>

RemovePut(n, t) ==
  /\ wpc[n][t] = "put"
  /\ wseen' = [wseen EXCEPT ![n][t] = None]
  /\ \/ /\ npc[n] # "closed"
        /\ PutNode(n, [wseen[n][t] EXCEPT !.ids = @ \ {t}])
        /\ wpc' = [wpc EXCEPT ![n][t] = IF Outdated(n, wseen[n][t]) THEN "remove" ELSE "done"]
        /\ UNCHANGED env
     \/ /\ IF npc[n] = "closed" THEN UNCHANGED env ELSE Disturb
        /\ wpc' = [wpc EXCEPT ![n][t] = "remove"]
        /\ UNCHANGED nodes
  /\ UNCHANGED <<taskState, schedVars, nodeVars, runset>>

(* ... or the context is done.                                             *)
RemoveGivesUp(n, t) ==
  /\ wpc[n][t] = "remove" /\ nctx[n]
  /\ wpc' = [wpc EXCEPT ![n][t] = "done"]
  /\ UNCHANGED <<dbVars, schedVars, nodeVars, runset, wseen, env>>

(* Only then is the id free again: runSet.Remove.                          *)
Forget(n, t) ==
  /\ wpc[n][t] = "done"
  /\ runset' = [runset EXCEPT ![n] = @ \ {t}]
  /\ wpc' = [wpc EXCEPT ![n][t] = "none"]
  /\ UNCHANGED <<dbVars, schedVars, nodeVars, wseen, env>>
-----------------------------------------------------------------------------
Schedule ==
  \/ ListNodes \/ CheckNodesFails \/ ReadQueue \/ AssignTask \/ MarkInitializing
  \/ \E n \in Node : EndTaskOfGoneNode(n) \/ DeleteNode(n) \/ MarkNodeDead(n)
  \/ \E t \in Task : GetOffer(t) \/ NoOffer(t)

RunNode(n) ==
  \/ SyncGet(n) \/ SyncStart(n) \/ SyncPut(n) \/ SyncFails(n)
  \/ CancelRun(n) \/ StopNode(n) \/ ExitNode(n)

RunTask(n, t) ==
  \/ WorkerReports(n, t) \/ WorkerEnds(n, t)
  \/ RemoveGet(n, t) \/ RemovePut(n, t) \/ RemoveGivesUp(n, t) \/ Forget(n, t)

Next ==
  \/ Schedule
  \/ \E n \in Node : PingTimeout(n) \/ RunNode(n) \/ Signal(n) \/ Drain(n) \/ CrashNode(n)
  \/ \E n \in Node, t \in Task : RunTask(n, t)
  \/ \E t \in Task : CancelTask(t)

(* The scheduling loop, the node processes and their workers keep going,   *)
(* and time passes for dead processes.  A select picks among its ready     *)
(* cases at random: a done context cannot lose to the ticker forever.      *)
Fairness ==
  /\ WF_vars(Schedule)
  /\ \A n \in Node : WF_vars(npc[n] = "dead" /\ PingTimeout(n))
  /\ \A n \in Node : WF_vars(RunNode(n)) /\ SF_vars(StopNode(n))
  /\ \A n \in Node, t \in Task : WF_vars(RunTask(n, t))

Spec == Init /\ [][Next]_vars /\ Fairness
-----------------------------------------------------------------------------
(* No task has a worker on two nodes at a time, whatever dies, times out   *)
(* or writes back an old record, unless Schedule failed to take the task   *)
(* out of the queue (Schedule, sync and runTask).                          *)
OneNodePerTask ==
  \A t \in Task \ missed : \A m, n \in Node : wpc[m][t] # "none" /\ wpc[n][t] # "none" => m = n

(* The unfinished tasks in a stored node record never ask for more than    *)
(* the node has, though offers are made from records read earlier.         *)
NeverOvercommitted ==
  \A n \in Node : nodes[n] # None =>
    MapThenSumSet(LAMBDA t : Request[t], {t \in nodes[n].ids : ~TerminalState(taskState[t])}) <= Capacity

(* A task the record of a dead process holds once the scheduler is between *)
(* two rounds is ended: by the timeouts of UpdateNodeState and CheckNodes, *)
(* which deletes the node even when it failed to write the task's end.     *)
DeadNodeTasksEnd ==
  \A n \in Node, t \in Task :
    (npc[n] = "dead" /\ spc = "offer" /\ squeue = {} /\ nodes[n] # None /\ t \in nodes[n].ids)
      ~> TerminalState(taskState[t]) \/ t \in missed

(* Schedule: a task does not stay queued forever while some node could     *)
(* take it, provided it is among the first Chunk tasks of the queue.       *)
NoStarvation ==
  \A t \in Task : ~<>[](t \in FirstQueued(Chunk) /\ \E n \in Node : Match(nodes[n], t))

(* The optimistic locking PutNode describes: a task that was assigned and  *)
(* is not over is in the record of some node or has a worker.              *)
NoLostAssignment ==
  \A t \in Task :
    taskState[t] \in {"INITIALIZING", "RUNNING"} =>
      \E n \in Node : (nodes[n] # None /\ t \in nodes[n].ids) \/ wpc[n][t] # "none"
=============================================================================

------------------------------ MODULE MCWorker ------------------------------
(* The parts of the worker for TLC: the run of a task, and inside of it    *)
(* the transfers, the storage backends, the files that are moved and the   *)
(* mounts.  A behaviour is about one part, the others being over.          *)
EXTENDS Worker, Transfers, StorageBackends, TaskFiles, MCFileMapper

VARIABLE part   \* the part at work

(* A worker that could not read its task.                                  *)
WorkerOver ==
  /\ conf = [scratch |-> FALSE, kube |-> FALSE, outputs |-> FALSE,
             ignore |-> [k \in Executor |-> FALSE], store |-> "bolt"]
  /\ pc = "exit" /\ i = 1
  /\ syserr = FALSE /\ execerr = FALSE /\ taskCanceled = FALSE /\ ctxDone = FALSE
  /\ poll = "off" /\ cmd = "none" /\ result = "ok"
  /\ db = "CANCELED"
  /\ outcome = [k \in Executor |-> "none"]
  /\ dropped = FALSE /\ uploaded = "no" /\ final = "UNKNOWN" /\ lost = FALSE

MCInit ==
  /\ part \in {"run", "transfers", "storage", "files", "mounts"}
  /\ IF part = "run" THEN Init ELSE WorkerOver
  /\ IF part = "transfers" THEN XferInit ELSE XferOver
  /\ IF part = "storage" THEN StorageInit ELSE StorageOver
  /\ IF part = "files" THEN FilesInit ELSE FilesOver
  /\ IF part = "mounts" THEN MapInit ELSE MapOver

MCNext ==
  /\ UNCHANGED part
  /\ \/ part = "run" /\ Next /\ UNCHANGED <<xferVars, storageVars, filesVars, mapVars>>
     \/ part = "transfers" /\ XferNext /\ UNCHANGED <<vars, storageVars, filesVars, mapVars>>
     \/ part = "storage" /\ StorageNext /\ UNCHANGED <<vars, xferVars, filesVars, mapVars>>
     \/ part = "files" /\ FilesNext /\ UNCHANGED <<vars, xferVars, storageVars, mapVars>>
     \/ part = "mounts" /\ MapNext /\ UNCHANGED <<vars, xferVars, storageVars, filesVars>>

MCSpec ==
  /\ MCInit
  /\ [][MCNext]_<<vars, xferVars, storageVars, filesVars, mapVars, part>>
  /\ Fairness
=============================================================================

----------------------------- MODULE Transfers -----------------------------
(***************************************************************************)
(* DownloadInputs and UploadOutputs (worker/storage.go) over the worker    *)
(* pool of storage.Download and storage.Upload: the directories among the  *)
(* inputs or outputs are listed, then the files are transferred in         *)
(* parallel.  A failed download cancels the context all downloads share; a *)
(* failed upload leaves the others alone.                                  *)
(***************************************************************************)
EXTENDS Integers, FiniteSets

CONSTANTS
  NFile,        \* files to transfer, once directories are listed
  ParallelLimit \* MaxParallelTransfers

File == 1..NFile

VARIABLES
  upload,      \* UploadOutputs, or DownloadInputs
  phase,       \* "flatten", "transfer" or "returned"
  transfer,    \* the state of each transfer
  ctxOver,     \* the context of the transfers is done
  taskOver,    \* ... because that of the task is
  broken,      \* history: the files whose own transfer failed
  report       \* what the caller gets: an error or not, and the files logged

xferVars == <<upload, phase, transfer, ctxOver, taskOver, broken, report>>

NoReport == [error |-> FALSE, logs |-> {}]

XferInit ==
  /\ upload \in BOOLEAN
  /\ phase = "flatten"
  /\ transfer = [f \in File |-> "queued"]
  /\ ctxOver = FALSE /\ taskOver = FALSE
  /\ broken = {} /\ report = NoReport

(* A task without files.                                                   *)
XferOver ==
  /\ upload = FALSE
  /\ phase = "returned"
  /\ transfer = [f \in File |-> "ok"]
  /\ ctxOver = TRUE /\ taskOver = TRUE
  /\ broken = {} /\ report = NoReport

In(s) == {f \in File : transfer[f] \in s}

(* FlattenInputs and FlattenOutputs: a listing that fails ends it all.     *)
Flatten ==
  /\ phase = "flatten"
  /\ \/ phase' = "transfer" /\ UNCHANGED report
     \/ phase' = "returned" /\ report' = [error |-> TRUE, logs |-> {}]
  /\ UNCHANGED <<upload, transfer, ctxOver, taskOver, broken>>

(* The pool runs up to ParallelLimit transfers, in the order of the list.  *)
Started(f) ==
  /\ phase = "transfer" /\ transfer[f] = "queued"
  /\ \A g \in In({"queued"}) : f <= g
  /\ Cardinality(In({"active"})) < ParallelLimit
  /\ transfer' = [transfer EXCEPT ![f] = "active"]
  /\ UNCHANGED <<upload, phase, ctxOver, taskOver, broken, report>>

Finished(f) ==
  /\ transfer[f] = "active"
  /\ transfer' = [transfer EXCEPT ![f] = "ok"]
  /\ UNCHANGED <<upload, phase, ctxOver, taskOver, broken, report>>

(* Mutant: an upload that fails cancels the others as well.                *)
FailedCancels(f) ==
  /\ transfer[f] = "active"
  /\ transfer' = [transfer EXCEPT ![f] = "failed"]
  /\ \E own \in BOOLEAN : (own \/ ctxOver) /\ broken' = IF own THEN broken \cup {f} ELSE broken
  /\ ctxOver' = TRUE
  /\ UNCHANGED <<upload, phase, taskOver, report>>

(* A Get or Put fails by itself, or because the context is done, which not *)
(* every backend looks at; Failed of a download cancels the context.       *)
Failed(f) ==
  /\ transfer[f] = "active"
  /\ transfer' = [transfer EXCEPT ![f] = "failed"]
  /\ \E own \in BOOLEAN : (own \/ ctxOver) /\ broken' = IF own THEN broken \cup {f} ELSE broken
  /\ ctxOver' = (ctxOver \/ ~upload)
  /\ UNCHANGED <<upload, phase, taskOver, report>>

(* StopWait, and the errors and logs collected.                            *)
Collect ==
  /\ phase = "transfer" /\ In({"queued", "active"}) = {}
  /\ phase' = "returned"
  /\ report' = [error |-> In({"failed"}) # {}, logs |-> IF upload THEN In({"ok"}) ELSE {}]
  /\ UNCHANGED <<upload, transfer, ctxOver, taskOver, broken>>

(* External: the task is canceled.                                         *)
TaskContextDone ==
  /\ phase # "returned" /\ ~taskOver
  /\ taskOver' = TRUE /\ ctxOver' = TRUE
  /\ UNCHANGED <<upload, phase, transfer, broken, report>>

XferNext ==
  \/ Flatten \/ Collect \/ TaskContextDone
  \/ \E f \in File : Started(f) \/ Finished(f) \/ Failed(f)

XferSpec == XferInit /\ [][XferNext]_xferVars
-----------------------------------------------------------------------------
(* One file's failure is reported and, for outputs, is nobody else's:      *)
(* DownloadInputs returns no error only when every file is there;          *)
(* UploadOutputs, unless the task is canceled, uploads and logs every file *)
(* whose own Put works, however many others fail beside it.                *)
TransfersReport ==
  phase = "returned" /\ (transfer # [f \in File |-> "queued"] \/ ~report.error) =>
    /\ report.error = (\E f \in File : transfer[f] # "ok")
    /\ upload /\ ~taskOver => report.logs = File \ broken
=============================================================================

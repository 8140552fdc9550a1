---------------------------- MODULE MCTaskStores ----------------------------
(***************************************************************************)
(* The task stores for TLC.  Writing events, listing tasks, viewing a task *)
(* and passing events on share no variable in these modules, so a          *)
(* behaviour explores one of them.  Writers are interchangeable.           *)
(***************************************************************************)
EXTENDS TaskStores, TaskListing, TaskViews, EventPipeline, TLC

VARIABLE side

Symmetry == Permutations(Writer)

NoListing ==
  /\ store = "boltdb" /\ created = [t \in TaskId |-> t] /\ stored = {} /\ matches = TaskId
  /\ filtered = FALSE /\ pageSize = 1 /\ token = 0 /\ listed = <<>> /\ finished = TRUE
  /\ steady = {} /\ changes = 0

NoWriting == Init /\ kind = "badger"

MCInit ==
  \/ side = "writing" /\ Init /\ NoListing /\ ViewsOver /\ PipeOver
  \/ side = "listing" /\ NoWriting /\ ListInit /\ ViewsOver /\ PipeOver
  \/ side = "viewing" /\ NoWriting /\ NoListing /\ ViewsInit /\ PipeOver
  \/ side = "passing" /\ NoWriting /\ NoListing /\ ViewsOver /\ PipeInit

MCNext ==
  /\ UNCHANGED side
  /\ \/ side = "writing" /\ Next /\ UNCHANGED <<listVars, viewVars, pipeVars>>
     \/ side = "listing" /\ ListNext /\ UNCHANGED <<vars, viewVars, pipeVars>>
     \/ side = "viewing" /\ ViewsNext /\ UNCHANGED <<vars, listVars, pipeVars>>
     \/ side = "passing" /\ PipeNext /\ UNCHANGED <<vars, listVars, viewVars>>

MCSpec == MCInit /\ [][MCNext]_<<vars, listVars, viewVars, pipeVars, side>>
=============================================================================

-------------------------- MODULE ExecutorContainer --------------------------
(* DockerCommand.Run and Stop (worker/docker.go): the container of one     *)
(* executor.  Run asks the client program for the image and then for the   *)
(* container, and waits for the client, not for the container; the         *)
(* container has the name of the task and the executor, which a container  *)
(* of an earlier worker of the same task may still have.  Containers are   *)
(* removed when they end (--rm).  The daemon is external.                  *)
EXTENDS Integers

CONSTANTS MaxInspect,      \* the ticks of InspectContainer
          MaxDockerFaults  \* bound on failed commands and lost connections

VARIABLES dstep,     \* where Run is
          box,       \* the container of that name
          ownEnd,    \* ghost: how the container of this run ended
          exitCode,  \* what Run returns
          refused,   \* the daemon did not create the container
          lostBox,   \* the client went away before its container
          inspect,   \* ticks left to InspectContainer
          meta,      \* the container whose metadata was logged
          halted,    \* Stop: not called, removed the container, or did not
          dockerFaults

dockerVars == <<dstep, box, ownEnd, exitCode, refused, lostBox, inspect, meta, halted, dockerFaults>>

Still(where) ==
  /\ dstep = where
  /\ ownEnd = "none" /\ exitCode = "none"
  /\ refused = FALSE /\ lostBox = FALSE
  /\ inspect = 0 /\ meta = "none"
  /\ halted = "no"
  /\ dockerFaults = 0

DockerInit == box \in {"none", "old"} /\ Still("sync")

DockerOver == box = "none" /\ Still("returned")

DockerFault == dockerFaults < MaxDockerFaults /\ dockerFaults' = dockerFaults + 1

Result(code) == dstep' = "returned" /\ exitCode' = code

(* Errors are logged, and Run goes on without the version ...              *)
SyncAPIVersion ==
  /\ dstep = "sync"
  /\ dstep' = "pull"
  /\ UNCHANGED <<box, ownEnd, exitCode, refused, lostBox, inspect, meta, halted, dockerFaults>>

(* ... and without the image, which the next command asks for again.       *)
PullImage ==
  /\ dstep = "pull"
  /\ dstep' = "run"
  /\ inspect' = MaxInspect
  /\ UNCHANGED <<box, ownEnd, exitCode, refused, lostBox, meta, halted, dockerFaults>>

(* executeCommand with the command of the executor.  The daemon creates no *)
(* container while there is one of that name, nor without an image.        *)
RunContainer ==
  /\ dstep = "run"
  /\ \/ box = "none" /\ box' = "own" /\ dstep' = "up" /\ UNCHANGED <<exitCode, refused, dockerFaults>>
     \/ box = "old" /\ Result("failed") /\ refused' = TRUE /\ UNCHANGED <<box, dockerFaults>>
     \/ DockerFault /\ Result("failed") /\ refused' = TRUE /\ UNCHANGED box
  /\ UNCHANGED <<ownEnd, lostBox, inspect, meta, halted>>

(* A container ends by itself, and its name is free.                       *)
ContainerEnds ==
  /\ box # "none"
  /\ box' = "none"
  /\ IF box = "own" THEN ownEnd' \in {"ok", "failed"} ELSE UNCHANGED ownEnd
  /\ UNCHANGED <<dstep, exitCode, refused, lostBox, inspect, meta, halted, dockerFaults>>

AnyExit == dstep = "up" /\ Result("ok")

(* The client exits with the code of its container.                        *)
ClientReturns ==
  /\ dstep = "up" /\ box # "own"
  /\ Result(IF ownEnd = "ok" THEN "ok" ELSE "failed")

ClientExits ==
  /\ ClientReturns
  /\ UNCHANGED <<box, ownEnd, refused, lostBox, inspect, meta, halted, dockerFaults>>

(* The client loses the daemon, or is killed; the container runs on.       *)
ClientLost ==
  /\ dstep = "up" /\ DockerFault
  /\ Result("failed")
  /\ lostBox' = TRUE
  /\ UNCHANGED <<box, ownEnd, refused, inspect, meta, halted>>

(* InspectContainer, beside the command: it asks by name, once a second,   *)
(* until there is an answer or the step is over.                           *)
InspectContainer ==
  /\ inspect > 0 /\ dstep # "returned"
  /\ IF box = "none" THEN inspect' = inspect - 1 /\ UNCHANGED meta
                     ELSE inspect' = 0 /\ meta' = box
  /\ UNCHANGED <<dstep, box, ownEnd, exitCode, refused, lostBox, halted, dockerFaults>>

(* Stop, when the context of the task is done: "rm -f" by name, once.  The *)
(* container may not exist yet, and then nothing stops Run.                *)
StopContainer ==
  /\ halted = "no" /\ dstep # "returned"
  /\ \/ /\ box' = "none"
        /\ IF box = "own" THEN halted' = "removed" /\ ownEnd' = "killed"
                          ELSE halted' = "missed" /\ UNCHANGED ownEnd
        /\ UNCHANGED dockerFaults
     \/ DockerFault /\ halted' = "missed" /\ UNCHANGED <<box, ownEnd>>
  /\ UNCHANGED <<dstep, exitCode, refused, lostBox, inspect, meta>>

DockerRun == SyncAPIVersion \/ PullImage \/ RunContainer \/ ClientExits

DockerNext ==
  DockerRun \/ ClientLost \/ ContainerEnds \/ InspectContainer \/ StopContainer

DockerSpec == DockerInit /\ [][DockerNext]_dockerVars

-----------------------------------------------------------------------------

(* What Run leaves behind and what it reports belong to its own container, *)
(* though one of an earlier worker may have had the name.  Success means   *)
(* that this run's container succeeded; the container is gone unless the   *)
(* client was lost before it; and a run without a container of its own is  *)
(* one that the daemon refused (executeCommand, Stop).                     *)
RunOwnsContainer ==
  dstep = "returned" /\ exitCode # "none" =>
    /\ exitCode = "ok" => ownEnd = "ok"
    /\ box = "own" => lostBox
    /\ ~refused => ownEnd # "none" \/ lostBox
=============================================================================

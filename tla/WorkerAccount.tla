---------------------------- MODULE WorkerAccount ----------------------------
(* Tasks of the Kubernetes backend whose workers run under one account,    *)
(* the one that their tag _WORKER_SA names: createResources makes it for   *)
(* the first, with the objects that each task has of its own, and          *)
(* cleanResources deletes it after the last.  No lock is held between what *)
(* is looked at and what is then done about it.                            *)
EXTENDS Integers, FiniteSets

CONSTANTS Sharer,             \* the tasks that name the account
          MaxAccountFaults    \* bound on failed calls to the API server

VARIABLES account,     \* there is a service account of that name
          setup,       \* task -> where createResources is
          owned,       \* task -> the objects that its job owns
          workerJob,   \* the tasks that have a worker job
          pod,         \* task -> the worker's pod
          cleaning,    \* task -> where cleanResources is
          late,        \* ghost: pods made after a deletion had looked for pods
          accountFaults

accountVars == <<account, setup, owned, workerJob, pod, cleaning, late, accountFaults>>

Owned == {"configmap", "role", "rolebinding"}

Blank(where) ==
  /\ setup = [t \in Sharer |-> where]
  /\ owned = [t \in Sharer |-> {}]
  /\ workerJob = {}
  /\ pod = [t \in Sharer |-> "none"]
  /\ cleaning = [t \in Sharer |-> "no"]
  /\ late = {}
  /\ accountFaults = 0

(* The account may be one that the users manage themselves.                *)
AccountInit == account \in BOOLEAN /\ Blank("job")

AccountOver == account = FALSE /\ Blank("failed")

AccountFault == accountFaults < MaxAccountFaults /\ accountFaults' = accountFaults + 1

-----------------------------------------------------------------------------
(* createResources, for one task.                                          *)

Goes(t, there) == setup' = [setup EXCEPT ![t] = there]

(* A creation failed: the task is canceled, which cleans up.               *)
Fails(t) ==
  /\ Goes(t, "failed")
  /\ cleaning' = [cleaning EXCEPT ![t] = IF @ = "no" THEN "job" ELSE @]

CreateWorkerJob(t) ==
  /\ setup[t] = "job"
  /\ \/ Goes(t, "configmap") /\ workerJob' = workerJob \cup {t} /\ UNCHANGED <<cleaning, accountFaults>>
     \/ AccountFault /\ Fails(t) /\ UNCHANGED workerJob
  /\ UNCHANGED <<account, owned, pod, late>>

(* An object that the job owns; once the job is gone it is collected.      *)
CreateOwnedObject(t, object, then) ==
  /\ setup[t] = object
  /\ \/ /\ Goes(t, then)
        /\ owned' = IF t \in workerJob THEN [owned EXCEPT ![t] = @ \cup {object}] ELSE owned
        /\ UNCHANGED <<cleaning, accountFaults>>
     \/ AccountFault /\ Fails(t) /\ UNCHANGED owned
  /\ UNCHANGED <<account, workerJob, pod, late>>

CreateConfigMap(t) == CreateOwnedObject(t, "configmap", "get account")

(* Any error of the lookup is taken for a missing account.                 *)
GetServiceAccount(t) ==
  /\ setup[t] = "get account"
  /\ \/ Goes(t, IF account THEN "role" ELSE "create account") /\ UNCHANGED accountFaults
     \/ AccountFault /\ Goes(t, "create account")
  /\ UNCHANGED <<account, owned, workerJob, pod, cleaning, late>>

(* The account has no owner; one that is there by now is an error.         *)
CreateServiceAccount(t) ==
  /\ setup[t] = "create account"
  /\ \/ ~account /\ account' = TRUE /\ Goes(t, "role") /\ UNCHANGED <<cleaning, accountFaults>>
     \/ account /\ Fails(t) /\ UNCHANGED <<account, accountFaults>>
     \/ ~account /\ AccountFault /\ Fails(t) /\ UNCHANGED account
  /\ UNCHANGED <<owned, workerJob, pod, late>>

CreateRole(t) == CreateOwnedObject(t, "role", "rolebinding")

CreateRoleBinding(t) == CreateOwnedObject(t, "rolebinding", "done")

-----------------------------------------------------------------------------
(* The job controller: a pod is admitted only with its account; the pod of *)
(* a deleted job is marked for deletion and then goes.                     *)

AccountPodComes(t) ==
  /\ t \in workerJob /\ pod[t] = "none" /\ account
  /\ pod' = [pod EXCEPT ![t] = "live"]
  /\ late' = IF \E s \in Sharer : cleaning[s] = "delete" THEN late \cup {t} ELSE late
  /\ UNCHANGED <<account, setup, owned, workerJob, cleaning, accountFaults>>

AccountPodGoes(t) ==
  /\ t \notin workerJob /\ pod[t] \in {"live", "terminating"}
  /\ pod' = [pod EXCEPT ![t] = IF @ = "live" THEN "terminating" ELSE "none"]
  /\ late' = late \ {t}
  /\ UNCHANGED <<account, setup, owned, workerJob, cleaning, accountFaults>>

-----------------------------------------------------------------------------
(* cleanResources, for a task that was canceled, has ended, or could not   *)
(* be set up.                                                              *)

CleanStarts(t) ==
  /\ cleaning[t] = "no" /\ t \in workerJob
  /\ cleaning' = [cleaning EXCEPT ![t] = "job"]
  /\ UNCHANGED <<account, setup, owned, workerJob, pod, late, accountFaults>>

CleanGoes(t, there) == cleaning' = [cleaning EXCEPT ![t] = there]

(* The job goes with what it owns.  The task is read for its tag: without  *)
(* it the account is left alone, another name being deleted.               *)
CleanJob(t) ==
  /\ cleaning[t] = "job"
  /\ \/ /\ workerJob' = workerJob \ {t} /\ owned' = [owned EXCEPT ![t] = {}]
        /\ CleanGoes(t, "look") /\ UNCHANGED accountFaults
     \/ AccountFault /\ CleanGoes(t, "look") /\ UNCHANGED <<workerJob, owned>>
     \/ /\ AccountFault /\ CleanGoes(t, "over")
        /\ workerJob' = workerJob \ {t} /\ owned' = [owned EXCEPT ![t] = {}]
  /\ UNCHANGED <<account, setup, pod, late>>

NoneAttached == FALSE

(* isServiceAccountAttachedToPods, after five seconds.                     *)
Attached == \E s \in Sharer : pod[s] = "live"

LookForPods(t) ==
  /\ cleaning[t] = "look"
  /\ \/ CleanGoes(t, IF Attached THEN "over" ELSE "delete") /\ UNCHANGED accountFaults
     \/ AccountFault /\ CleanGoes(t, "over")
  /\ UNCHANGED <<account, setup, owned, workerJob, pod, late>>

DeleteServiceAccount(t) ==
  /\ cleaning[t] = "delete"
  /\ \/ account' = FALSE /\ UNCHANGED accountFaults
     \/ AccountFault /\ UNCHANGED account
  /\ CleanGoes(t, "over")
  /\ UNCHANGED <<setup, owned, workerJob, pod, late>>

AccountNext ==
  \E t \in Sharer :
    \/ CreateWorkerJob(t) \/ CreateConfigMap(t) \/ GetServiceAccount(t) \/ CreateServiceAccount(t)
    \/ CreateRole(t) \/ CreateRoleBinding(t)
    \/ AccountPodComes(t) \/ AccountPodGoes(t)
    \/ CleanStarts(t) \/ CleanJob(t) \/ LookForPods(t) \/ DeleteServiceAccount(t)

AccountSpec == AccountInit /\ [][AccountNext]_accountVars

-----------------------------------------------------------------------------

(* The clean-up of one task does not take the account away from the worker *)
(* of another one (DeleteServiceAccount with SharedSA): a worker's pod     *)
(* that is there, and not on its way out, has its account, unless it came  *)
(* after a clean-up had already looked for pods and before it deleted the  *)
(* account, the gap that the code leaves open.                             *)
AccountKept ==
  \A t \in Sharer : pod[t] = "live" => account \/ t \in late
=============================================================================

---------------------------- MODULE TaskLifecycle ----------------------------
(***************************************************************************)
(* What a task store promises about the state of each task, whatever the   *)
(* order in which the server, the workers, the compute backends and the    *)
(* users write state events.  "UNKNOWN" stands for a task that the store   *)
(* has no record of.                                                       *)
(*                                                                         *)
(* Retryable is the set of terminal states that a store lets a task leave: *)
(* none for BoltDB (transitionTaskState refuses every move out of a        *)
(* terminal state), the two error states for the stores that call          *)
(* ValidateTransition.                                                     *)
(***************************************************************************)
EXTENDS TaskStates

CONSTANTS Task, Retryable

VARIABLE state

Init == state = [t \in Task |-> "UNKNOWN"]

Move(t, s) == state' = [state EXCEPT ![t] = s]

Create(t) == state[t] = "UNKNOWN" /\ Move(t, "QUEUED")

Start(t) == state[t] = "QUEUED" /\ Move(t, "INITIALIZING")

Execute(t) == state[t] \in {"QUEUED", "INITIALIZING"} /\ Move(t, "RUNNING")

Finish(t) == state[t] \in Active /\ \E s \in Terminal : Move(t, s)

Retry(t) == state[t] \in Retryable /\ \E s \in {"QUEUED", "INITIALIZING"} : Move(t, s)

Next == \E t \in Task : Create(t) \/ Start(t) \/ Execute(t) \/ Finish(t) \/ Retry(t)

Spec == Init /\ [][Next]_state
=============================================================================

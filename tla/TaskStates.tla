----------------------------- MODULE TaskStates -----------------------------
(***************************************************************************)
(* The task states of tes/states.go and the predicates on them that every  *)
(* other part of Funnel uses: which states are terminal, which transitions *)
(* the two validators accept.                                              *)
(***************************************************************************)

Active == {"QUEUED", "INITIALIZING", "RUNNING"}

Terminal == {"COMPLETE", "EXECUTOR_ERROR", "SYSTEM_ERROR", "CANCELED"}

(* tes.State: PAUSED is declared and never entered; UNKNOWN is the zero    *)
(* value, which BoltDB also reports for a task it has no record of.       *)
State == Active \cup Terminal \cup {"UNKNOWN", "PAUSED"}

TerminalState(s) == s \in Terminal

(* ValidateTransition returns nil exactly when this holds.                 *)
ValidateTransition(from, to) ==
  \/ from = to
  \/ /\ "PAUSED" \notin {from, to}
     /\ \/ from = "UNKNOWN"
        \/ from = "QUEUED" /\ to # "UNKNOWN"
        \/ from = "INITIALIZING" /\ to \notin {"UNKNOWN", "QUEUED"}
        \/ from = "RUNNING" /\ to \in Terminal
        \/ from \in {"EXECUTOR_ERROR", "SYSTEM_ERROR"} /\ to \in {"QUEUED", "INITIALIZING"}

(* Mutant: a store that lets a late event of a worker revive a failed task.*)
TransitionAllowedRevive(current, target) ==
  \/ ~TerminalState(current)
  \/ current = "SYSTEM_ERROR" /\ target = "INITIALIZING"

(* The moves BoltDB's transitionTaskState makes; a move of a task to the   *)
(* state it is already in returns nil and changes nothing.                 *)
TransitionAllowed(current, target) ==
  /\ ~TerminalState(current)
  /\ \/ TerminalState(target)
     \/ target \in {"RUNNING", "INITIALIZING"} /\ current \in {"UNKNOWN", "QUEUED", "INITIALIZING"}
=============================================================================

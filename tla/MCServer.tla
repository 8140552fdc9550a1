------------------------------ MODULE MCServer ------------------------------
(* The server from its start to its stop, and the scheduler it runs for    *)
(* nodes of its own, for TLC.  A behaviour is about one of the two, the    *)
(* other being over.                                                       *)
EXTENDS MCManualCompute, ServerStart

VARIABLE part   \* the part at work

(* Tasks that were canceled, a scheduler whose context is done, and        *)
(* processes that have died.                                               *)
QueueOver ==
  Start([t \in Task |-> "CANCELED"], "stopped", [n \in Node |-> "dead"], MaxEnv)

MCServerInit ==
  /\ part \in {"queue", "start"}
  /\ IF part = "queue" THEN Init ELSE QueueOver
  /\ IF part = "start" THEN StartInit ELSE StartOver

MCServerNext ==
  /\ UNCHANGED part
  /\ part # "queue" => UNCHANGED vars
  /\ part # "start" => UNCHANGED startVars
  /\ \/ part = "queue" /\ Next
     \/ part = "start" /\ StartNext

(* The fairness of the part that is over asks nothing of it.               *)
MCServerSpec ==
  /\ MCServerInit
  /\ [][MCServerNext]_<<vars, startVars, part>>
  /\ Fairness /\ StartFairness
=============================================================================

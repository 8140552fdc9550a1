--------------------------- MODULE MCTaskRequests --------------------------
(* What a task passes before a worker has it, for TLC: the commands of a   *)
(* client, the HTTP gateway of the server, and BoltDB.  A behaviour is     *)
(* about one part; the database is new and the others are over.            *)
EXTENDS MCBoltTaskDB, TaskClient, TaskGateway

CONSTANTS new1, new2, old1, old2

MCNewTask == <<new1, new2>>
MCOldTask == <<old1, old2>>

VARIABLE part   \* the part at work

requestsVars == <<vars, clientVars, gatewayVars, part>>

RequestsInit ==
  /\ part \in {"database", "client", "gateway"}
  /\ Init
  /\ IF part = "client" THEN ClientInit ELSE ClientOver
  /\ IF part = "gateway" THEN GatewayInit ELSE GatewayOver

(* A command exits and a POST is answered, where the database goes on.     *)
Ended ==
  /\ \/ part = "client" /\ exit # "running"
     \/ part = "gateway" /\ answer # 0
  /\ UNCHANGED requestsVars

RequestsNext ==
  /\ UNCHANGED part
  /\ part # "database" => UNCHANGED vars
  /\ part # "client" => UNCHANGED clientVars
  /\ part # "gateway" => UNCHANGED gatewayVars
  /\ \/ part = "database" /\ Next
     \/ part = "client" /\ ClientNext
     \/ part = "gateway" /\ GatewayNext
     \/ Ended

RequestsSpec == RequestsInit /\ [][RequestsNext]_requestsVars
=============================================================================

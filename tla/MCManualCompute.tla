-------------------------- MODULE MCManualCompute --------------------------
(* Instances of ManualCompute: tasks that ask for one cpu each, and a task *)
(* at the head of the queue that asks for more than any node has.          *)
EXTENDS ManualCompute, TLC

OneCpuEach == [t \in Task |-> 1]

FirstTooLarge == [t \in Task |-> IF t = 1 THEN Capacity + 1 ELSE 1]

Symmetry == Permutations(Node)

(* One task for two nodes, the other one was canceled before; or two tasks *)
(* for one node, the other process has died, which leaves one disturbance  *)
(* less.                                                                   *)
OneTask ==
  Start([t \in Task |-> IF t = 1 THEN "QUEUED" ELSE "CANCELED"], "offer", [n \in Node |-> "loop"], 0)

OneNode ==
  \E n \in Node :
    Start([t \in Task |-> "QUEUED"], "offer", [m \in Node |-> IF m = n THEN "loop" ELSE "dead"], 1)

MCSpec == (OneTask \/ OneNode) /\ [][Next]_vars
=============================================================================

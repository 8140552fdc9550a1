------------------------- MODULE ManualComputeProofs ------------------------
(***************************************************************************)
(* Proofs about ManualCompute for any number of nodes, tasks and failures: *)
(* no task has a worker on two nodes, and no node record is filled beyond  *)
(* the capacity.  The records are copied to the scheduler, to the node and *)
(* to each of its workers, and written back later; the invariant therefore *)
(* speaks of all the lists of tasks that exist anywhere.                   *)
(***************************************************************************)
EXTENDS ManualCompute, FiniteSetTheorems, WellFoundedInduction, TLAPS

(* The provers to try on a step in turn, with the seconds each may take.   *)
USE ZenonT(5), SMTT(20), ZenonT(20), SMTT(40), SMTT(60)

-----------------------------------------------------------------------------
(* The sum of the requests: what the proofs need of MapThenSumSet.         *)

(* What the tasks of a set ask for together, as AvailableResources adds it *)
(* up.                                                                     *)
SumOf(S) == MapThenSumSet(LAMBDA t : Request[t], S)

(* The element that the library's sum takes out of a set next.             *)
Pick(s) == CHOOSE x \in s : TRUE

(* The function that the library's sum chooses: it adds the request of one *)
(* element to the sum of the others.                                       *)
Adds(S, f) ==
  f = [s \in SUBSET S |-> IF s = {} THEN 0 ELSE Request[Pick(s)] + f[s \ {Pick(s)}]]

(* The sum is what this function gives for the set.                        *)
LEMMA SumIs ==
  ASSUME NEW S
  PROVE  SumOf(S) = (CHOOSE f : Adds(S, f))[S]
BY DEF SumOf, MapThenSumSet, MapThenFoldSet, Adds, Pick

(* A nonempty family of subsets of a finite set has a minimal member: the  *)
(* induction of the following lemmas looks at a minimal counterexample.    *)
LEMMA SmallestSet ==
  ASSUME NEW D, IsFiniteSet(D), NEW X \in SUBSET SUBSET D, X # {}
  PROVE  \E s \in X : \A u \in X : u \subseteq s => u = s
<1>1. IsWellFoundedOn(StrictSubsetOrdering(D), SUBSET D)
  BY FS_StrictSubsetOrderingWellFounded, FS_FiniteSubsetsOfFinite
<1>2. PICK s \in X : \A u \in X : ~(<<u, s>> \in StrictSubsetOrdering(D))
  BY <1>1, WFMin
<1>3. QED
  BY <1>2 DEF StrictSubsetOrdering

(* The element is one of the set.                                          *)
LEMMA PickIn ==
  ASSUME NEW s, s # {}
  PROVE  Pick(s) \in s
BY DEF Pick

(* There is only one such function on the subsets of a finite set.         *)
LEMMA SumUnique ==
  ASSUME NEW T, IsFiniteSet(T), NEW f, NEW g, Adds(T, f), Adds(T, g)
  PROVE  f = g
<1> DEFINE X == {s \in SUBSET T : f[s] # g[s]}
<1>1. X = {}
  <2> SUFFICES ASSUME X # {} PROVE FALSE
    OBVIOUS
  <2>1. PICK s \in X : \A u \in X : u \subseteq s => u = s
    <3>1. X \in SUBSET SUBSET T
      OBVIOUS
    <3> HIDE DEF X
    <3>2. QED
      BY <3>1, SmallestSet
  <2>2. s # {}
    BY <2>1 DEF Adds
  <2>3. Pick(s) \in s
    BY <2>2, PickIn
  <2>4. f[s \ {Pick(s)}] = g[s \ {Pick(s)}]
    BY <2>1, <2>3
  <2>5. f[s] = Request[Pick(s)] + f[s \ {Pick(s)}] /\ g[s] = Request[Pick(s)] + g[s \ {Pick(s)}]
    BY <2>1, <2>2 DEF Adds
  <2>6. QED
    BY <2>1, <2>4, <2>5
<1>2. \A s \in SUBSET T : f[s] = g[s]
  BY <1>1
<1>3. DOMAIN f = SUBSET T /\ DOMAIN g = SUBSET T
  BY DEF Adds
<1>4. f = [s \in SUBSET T |-> f[s]] /\ g = [s \in SUBSET T |-> g[s]]
  BY DEF Adds
<1>5. QED
  BY <1>2, <1>4

(* The equations of a sum hold of the set.                                 *)
Summed(s) ==
  /\ SumOf(s) \in Nat
  /\ s = {} => SumOf(s) = 0
  /\ s # {} => SumOf(s) = Request[Pick(s)] + SumOf(s \ {Pick(s)})

(* They hold of a set when they hold of all its proper subsets.            *)
LEMMA SumStep ==
  ASSUME NEW T \in SUBSET Task, IsFiniteSet(T),
         \A s \in SUBSET T : s # T => Summed(s)
  PROVE  Summed(T)
<1> DEFINE h == [s \in SUBSET T |->
                   IF s = {} THEN 0
                   ELSE IF s = T THEN Request[Pick(T)] + SumOf(T \ {Pick(T)}) ELSE SumOf(s)]
<1>1. Adds(T, h)
  <2>1. ASSUME NEW s \in SUBSET T
        PROVE  h[s] = IF s = {} THEN 0 ELSE Request[Pick(s)] + h[s \ {Pick(s)}]
    <3>1. CASE s = {}
      BY <3>1
    <3>2. CASE s # {}
      <4>1. Pick(s) \in s
        BY <3>2, PickIn
      <4>2. s \ {Pick(s)} \in SUBSET T /\ s \ {Pick(s)} # T
        BY <4>1
      <4>3. h[s \ {Pick(s)}] = SumOf(s \ {Pick(s)})
        BY <4>2 DEF Summed
      <4>4. CASE s = T
        BY <3>2, <4>3, <4>4
      <4>5. CASE s # T
        BY <3>2, <4>3, <4>5 DEF Summed
      <4>6. QED
        BY <4>4, <4>5
    <3>3. QED
      BY <3>1, <3>2
  <2>2. h = [s \in SUBSET T |-> h[s]]
    OBVIOUS
  <2> HIDE DEF h
  <2>3. QED
    BY <2>1, <2>2 DEF Adds
<1>2. SumOf(T) = h[T]
  <2> HIDE DEF h
  <2>1. Adds(T, CHOOSE f : Adds(T, f))
    BY <1>1
  <2>2. (CHOOSE f : Adds(T, f)) = h
    BY <1>1, <2>1, SumUnique
  <2>3. QED
    BY <2>2, SumIs
<1>3. CASE T = {}
  BY <1>2, <1>3 DEF Summed
<1>4. CASE T # {}
  <2>1. Pick(T) \in T
    BY <1>4, PickIn
  <2>2. SumOf(T \ {Pick(T)}) \in Nat
    BY <2>1 DEF Summed
  <2>3. Request[Pick(T)] \in Nat
    BY <2>1, ConstantsAssumption
  <2>4. SumOf(T) = Request[Pick(T)] + SumOf(T \ {Pick(T)})
    BY <1>2, <1>4
  <2>5. QED
    BY <1>4, <2>2, <2>3, <2>4 DEF Summed
<1>5. QED
  BY <1>3, <1>4

(* The tasks are finitely many.                                            *)
LEMMA TaskFinite == IsFiniteSet(Task) /\ \A s \in SUBSET Task : IsFiniteSet(s)
<1>1. IsFiniteSet(Task)
  BY FS_Interval, ConstantsAssumption DEF Task
<1>2. QED
  BY <1>1, FS_Subset

(* The equations hold of every set of tasks.                               *)
LEMMA SumWorks == \A s \in SUBSET Task : Summed(s)
<1> DEFINE X == {s \in SUBSET Task : ~Summed(s)}
<1> SUFFICES ASSUME X # {} PROVE FALSE
  OBVIOUS
<1>1. PICK s \in X : \A u \in X : u \subseteq s => u = s
  <2>1. X \in SUBSET SUBSET Task
    OBVIOUS
  <2> HIDE DEF X
  <2>2. QED
    BY <2>1, SmallestSet, TaskFinite
<1>2. \A u \in SUBSET s : u # s => Summed(u)
  BY <1>1
<1>3. QED
  BY <1>1, <1>2, SumStep, TaskFinite

(* Any element can be taken out of a sum, not only the one the definition  *)
(* takes.                                                                  *)
LEMMA SumRemove ==
  ASSUME NEW S \in SUBSET Task, NEW x \in S
  PROVE  SumOf(S) = Request[x] + SumOf(S \ {x})
<1> DEFINE X == {s \in SUBSET Task : \E y \in s : SumOf(s) # Request[y] + SumOf(s \ {y})}
<1> SUFFICES ASSUME X # {} PROVE FALSE
  OBVIOUS
<1>1. PICK s \in X : \A u \in X : u \subseteq s => u = s
  <2>1. X \in SUBSET SUBSET Task
    OBVIOUS
  <2> HIDE DEF X
  <2>2. QED
    BY <2>1, SmallestSet, TaskFinite
<1>2. PICK y \in s : SumOf(s) # Request[y] + SumOf(s \ {y})
  BY <1>1
<1>3. PICK p : p = Pick(s)
  OBVIOUS
<1>4. p \in s /\ SumOf(s) = Request[p] + SumOf(s \ {p})
  BY <1>1, <1>2, <1>3, PickIn, SumWorks DEF Summed
<1>5. p # y
  BY <1>2, <1>4
<1>6. SumOf(s \ {p}) = Request[y] + SumOf((s \ {p}) \ {y})
  BY <1>1, <1>2, <1>4, <1>5
<1>7. SumOf(s \ {y}) = Request[p] + SumOf((s \ {y}) \ {p})
  BY <1>1, <1>2, <1>4, <1>5
<1>8. (s \ {p}) \ {y} = (s \ {y}) \ {p}
  OBVIOUS
<1>9. SumOf((s \ {y}) \ {p}) \in Nat /\ Request[p] \in Nat /\ Request[y] \in Nat
  BY <1>1, <1>2, <1>4, SumWorks, ConstantsAssumption DEF Summed
<1>10. QED
  BY <1>2, <1>4, <1>6, <1>7, <1>8, <1>9

(* More tasks do not ask for less.                                         *)
LEMMA SumMonotone ==
  ASSUME NEW S \in SUBSET Task, NEW T \in SUBSET Task, S \subseteq T
  PROVE  SumOf(S) <= SumOf(T)
<1> DEFINE X == {s \in SUBSET Task : S \subseteq s /\ ~(SumOf(S) <= SumOf(s))}
<1> SUFFICES ASSUME X # {} PROVE FALSE
  OBVIOUS
<1>1. PICK s \in X : \A u \in X : u \subseteq s => u = s
  <2>1. X \in SUBSET SUBSET Task
    OBVIOUS
  <2> HIDE DEF X
  <2>2. QED
    BY <2>1, SmallestSet, TaskFinite
<1>2. SumOf(S) \in Nat /\ SumOf(s) \in Nat
  BY <1>1, SumWorks DEF Summed
<1>3. PICK x \in s : x \notin S
  <2>1. s # S
    <3>1. SumOf(S) <= SumOf(S)
      BY <1>2
    <3>2. QED
      BY <1>1, <3>1
  <2>2. QED
    BY <1>1, <2>1
<1>4. SumOf(s) = Request[x] + SumOf(s \ {x})
  BY <1>1, <1>3, SumRemove
<1>5. SumOf(S) <= SumOf(s \ {x})
  BY <1>1, <1>3
<1>6. Request[x] \in Nat /\ SumOf(s \ {x}) \in Nat
  BY <1>1, <1>3, SumWorks, ConstantsAssumption DEF Summed
<1>7. QED
  BY <1>1, <1>2, <1>4, <1>5, <1>6

-----------------------------------------------------------------------------
(* The invariant, and the steps that make no new list.                     *)

(* The states of a node.                                                   *)
NodeStates == {"ALIVE", "DRAIN", "DEAD", "GONE"}

(* The record of a node in the database.                                   *)
Stored == [state : NodeStates, ids : SUBSET Task, avail : Nat, stale : BOOLEAN, version : {0}]

(* A copy of it, as the scheduler, the node and its workers keep one.      *)
Copy == [state : NodeStates, ids : SUBSET Task, version : {0}]

(* An offer of the scheduler: a node, a task, and the copy with the task   *)
(* added.                                                                  *)
Offer == [node : Node, task : Task, rec : Copy]

(* The values of the variables that the argument reads.                    *)
ManualType ==
  /\ taskState \in [Task -> State]
  /\ nodes \in [Node -> Stored \cup {None}]
  /\ DOMAIN supdated \subseteq Node
  /\ supdated = [n \in DOMAIN supdated |-> supdated[n]]
  /\ \A n \in DOMAIN supdated : supdated[n] \in Copy
  /\ squeue \in SUBSET Task
  /\ spc \in {"put", "init"} => soffer \in Offer /\ soffer.task \in squeue
  /\ nstate \in [Node -> NodeStates]
  /\ nseen \in [Node -> SUBSET Task]
  /\ wpc \in [Node -> [Task -> {"none", "work", "remove", "put", "done"}]]
  /\ wseen \in [Node -> [Task -> Copy \cup {None}]]
  /\ \A n \in Node, t \in Task : wpc[n][t] = "put" => wseen[n][t] \in Copy

(* The lists of tasks of a node that exist somewhere: in the database, at  *)
(* the scheduler, at the node and at its workers.  That of an offer counts *)
(* without its task until it is stored.                                    *)
Held(n, S) ==
  \/ nodes[n] # None /\ S = nodes[n].ids
  \/ n \in DOMAIN supdated /\ S = supdated[n].ids
  \/ spc \in {"put", "init"} /\ n = soffer.node /\ S = soffer.rec.ids \ {soffer.task}
  \/ S = nseen[n]
  \/ \E u \in Task : wpc[n][u] = "put" /\ S = wseen[n][u].ids

(* All tasks of S are together in one list of the node.                    *)
Known(n, S) == \E R \in SUBSET Task : Held(n, R) /\ S \subseteq R

(* The node has, or may yet come to have, a worker for the task.           *)
Touch(n, t) == wpc[n][t] # "none" \/ Known(n, {t})

(* What the unfinished tasks of S ask for.                                 *)
Used(S, states) == SumOf({t \in S : ~TerminalState(states[t])})

(* They fit into the node.                                                 *)
Fits(S, states) == Used(S, states) <= Capacity

(* Every list that exists fits, so that whichever is written back next     *)
(* does; and so does the one of an offer.                                  *)
FitInv ==
  /\ \A n \in Node, S \in SUBSET Task : Held(n, S) => Fits(S, taskState)
  /\ spc \in {"put", "init"} => Fits(soffer.rec.ids, taskState)

(* What a record shows as available really is.                             *)
AvailInv ==
  \A n \in Node : nodes[n] # None /\ nodes[n].avail > 0 =>
    Used(nodes[n].ids, taskState) + nodes[n].avail <= Capacity

(* A task that is queued, or in the scheduler's copy of the queue, is with *)
(* no node, but for the moment between its assignment and its              *)
(* INITIALIZING.                                                           *)
QueueInv ==
  \A t \in Task \ missed, n \in Node : Touch(n, t) /\ (taskState[t] = "QUEUED" \/ t \in squeue) =>
    spc = "init" /\ soffer.task = t /\ soffer.node = n

(* No task is with two nodes.                                              *)
OneInv == \A t \in Task \ missed, m, n \in Node : Touch(m, t) /\ Touch(n, t) => m = n

(* The inductive invariant.                                                *)
ManualInv == ManualType /\ FitInv /\ AvailInv /\ QueueInv /\ OneInv

(* No task goes back to the queue or out of a terminal state.              *)
StatesGo ==
  \A t \in Task :
    /\ taskState'[t] = "QUEUED" => taskState[t] = "QUEUED"
    /\ TerminalState(taskState[t]) => TerminalState(taskState'[t])

(* A step makes no list that was not part of one before.                   *)
ListsKept ==
  /\ \A n \in Node : nodes'[n] # None => Known(n, nodes'[n].ids)
  /\ \A n \in Node : n \in DOMAIN supdated' => Known(n, supdated'[n].ids)
  /\ spc' \in {"put", "init"} => Known(soffer'.node, soffer'.rec.ids \ {soffer'.task})
  /\ \A n \in Node : Known(n, nseen'[n])
  /\ \A n \in Node, u \in Task : wpc'[n][u] = "put" => Known(n, wseen'[n][u].ids)
  /\ \A n \in Node, u \in Task : wpc'[n][u] # "none" => wpc[n][u] # "none" \/ Known(n, {u})

(* A record is not the missing one.                                        *)
LEMMA NoneIsNone == \A r \in Stored \cup Copy : r # None
BY DEF Stored, Copy, NodeStates, None

(* The lists that are held are known.                                      *)
LEMMA KnownIs ==
  ASSUME ManualType
  PROVE  /\ \A n \in Node : nodes[n] # None => Known(n, nodes[n].ids)
         /\ \A n \in Node : n \in DOMAIN supdated => Known(n, supdated[n].ids)
         /\ spc \in {"put", "init"} => Known(soffer.node, soffer.rec.ids \ {soffer.task})
         /\ \A n \in Node : Known(n, nseen[n]) /\ Known(n, {})
         /\ \A n \in Node, u \in Task : wpc[n][u] = "put" => Known(n, wseen[n][u].ids)
<1>1. \A n \in Node : nodes[n] # None => nodes[n].ids \in SUBSET Task
  BY DEF ManualType, Stored
<1>2. \A n \in Node : n \in DOMAIN supdated => supdated[n].ids \in SUBSET Task
  BY DEF ManualType, Copy
<1>3. spc \in {"put", "init"} => soffer.rec.ids \ {soffer.task} \in SUBSET Task
  BY DEF ManualType, Offer, Copy
<1>4. \A n \in Node : nseen[n] \in SUBSET Task
  BY DEF ManualType
<1>5. \A n \in Node, u \in Task : wpc[n][u] = "put" => wseen[n][u].ids \in SUBSET Task
  BY DEF ManualType, Copy
<1>6. \A n \in Node, S \in SUBSET Task : Held(n, S) => Known(n, S)
  BY DEF Known
<1>7. \A n \in Node : nodes[n] # None => Known(n, nodes[n].ids)
  BY <1>1, <1>6 DEF Held
<1>8. \A n \in Node : n \in DOMAIN supdated => Known(n, supdated[n].ids)
  BY <1>2, <1>6 DEF Held
<1>9. spc \in {"put", "init"} => Known(soffer.node, soffer.rec.ids \ {soffer.task})
  <2>1. spc \in {"put", "init"} => Held(soffer.node, soffer.rec.ids \ {soffer.task})
    BY DEF Held
  <2>2. QED
    BY <1>3, <2>1 DEF Known
<1>10. \A n \in Node : Known(n, nseen[n])
  BY <1>4, <1>6 DEF Held
<1>11. \A n \in Node : Known(n, {})
  BY <1>10 DEF Known
<1>12. \A n \in Node, u \in Task : wpc[n][u] = "put" => Known(n, wseen[n][u].ids)
  BY <1>5, <1>6 DEF Held
<1>13. QED
  BY <1>7, <1>8, <1>9, <1>10, <1>11, <1>12

(* So are their parts.                                                     *)
LEMMA KnownSub ==
  ASSUME NEW n, NEW S, NEW R, Known(n, R), S \subseteq R
  PROVE  Known(n, S)
BY DEF Known

(* A list after a step was known before it.                                *)
LEMMA HeldKept ==
  ASSUME ManualType, ListsKept, NEW n \in Node, NEW S \in SUBSET Task, Held(n, S)'
  PROVE  Known(n, S)
BY DEF Held, ListsKept

(* A step that makes no new list brings no task to a node.                 *)
LEMMA TouchKept ==
  ASSUME ManualType, ListsKept, NEW n \in Node, NEW t \in Task, Touch(n, t)'
  PROVE  Touch(n, t)
<1>1. CASE wpc'[n][t] # "none"
  BY <1>1 DEF ListsKept, Touch
<1>2. CASE Known(n, {t})'
  <2>1. PICK R \in SUBSET Task : Held(n, R)' /\ {t} \subseteq R
    BY <1>2 DEF Known
  <2>2. Known(n, R)
    BY <2>1, HeldKept
  <2>3. QED
    BY <2>1, <2>2, KnownSub DEF Touch
<1>3. QED
  BY <1>1, <1>2 DEF Touch

(* The use is a number.                                                    *)
LEMMA UsedIs ==
  ASSUME NEW S \in SUBSET Task, NEW states
  PROVE  Used(S, states) \in Nat
BY SumWorks DEF Used, Summed

(* Fewer tasks, or more of them finished, use no more.                     *)
LEMMA UsedLess ==
  ASSUME NEW S \in SUBSET Task, NEW R \in SUBSET Task, S \subseteq R, NEW old, NEW new,
         \A t \in Task : TerminalState(old[t]) => TerminalState(new[t])
  PROVE  Used(S, new) <= Used(R, old)
<1>1. {t \in S : ~TerminalState(new[t])} \subseteq {t \in R : ~TerminalState(old[t])}
  OBVIOUS
<1>2. QED
  BY <1>1, SumMonotone DEF Used

(* What fits goes on to fit.                                               *)
LEMMA FitsLess ==
  ASSUME NEW S \in SUBSET Task, NEW R \in SUBSET Task, S \subseteq R, NEW old, NEW new,
         \A t \in Task : TerminalState(old[t]) => TerminalState(new[t]), Fits(R, old)
  PROVE  Fits(S, new)
<1>1. Used(S, new) <= Used(R, old) /\ Used(S, new) \in Nat /\ Used(R, old) \in Nat
  BY UsedLess, UsedIs
<1>2. QED
  BY <1>1, ConstantsAssumption DEF Fits

(* AvailableResources leaves no more than is free.                         *)
LEMMA AvailableIs ==
  ASSUME NEW S \in SUBSET Task
  PROVE  /\ AvailableResources(S) \in Nat
         /\ AvailableResources(S) > 0 => Used(S, taskState) + AvailableResources(S) <= Capacity
<1>1. AvailableResources(S) = IF Used(S, taskState) >= Capacity THEN 0 ELSE Capacity - Used(S, taskState)
  BY DEF AvailableResources, Used, SumOf
<1>2. Used(S, taskState) \in Nat
  BY UsedIs
<1>3. QED
  BY <1>1, <1>2, ConstantsAssumption

(* A step that makes no new list keeps all lists fitting.                  *)
LEMMA FitKept ==
  ASSUME ManualInv, ManualType', ListsKept, StatesGo,
         spc' \in {"put", "init"} =>
           (spc \in {"put", "init"} /\ soffer' = soffer) \/ Fits(soffer'.rec.ids, taskState')
  PROVE  FitInv'
<1>1. ASSUME NEW n \in Node, NEW S \in SUBSET Task, Held(n, S)' PROVE Fits(S, taskState')
  <2>1. Known(n, S)
    BY <1>1, HeldKept DEF ManualInv
  <2>2. PICK R \in SUBSET Task : Held(n, R) /\ S \subseteq R
    BY <2>1 DEF Known
  <2>3. Fits(R, taskState)
    BY <2>2 DEF ManualInv, FitInv
  <2>4. QED
    BY <2>2, <2>3, FitsLess DEF StatesGo
<1>2. ASSUME spc \in {"put", "init"}, soffer' = soffer PROVE Fits(soffer'.rec.ids, taskState')
  <2>1. soffer.rec.ids \in SUBSET Task
    BY <1>2 DEF ManualInv, ManualType, Offer, Copy
  <2>2. Fits(soffer.rec.ids, taskState)
    BY <1>2 DEF ManualInv, FitInv
  <2>3. Fits(soffer.rec.ids, taskState')
    BY <2>1, <2>2, FitsLess DEF StatesGo
  <2>4. QED
    BY <1>2, <2>3
<1>3. QED
  BY <1>1, <1>2 DEF FitInv

(* A step leaves a record's list and what it shows as available alone, or  *)
(* computes the latter anew.                                               *)
AvailKept ==
  \A n \in Node :
    \/ nodes'[n] = None
    \/ nodes[n] # None /\ nodes'[n].ids = nodes[n].ids /\ nodes'[n].avail = nodes[n].avail
    \/ nodes'[n].avail = AvailableResources(nodes'[n].ids) /\ UNCHANGED taskState

(* Then what is shown as available is.                                     *)
LEMMA AvailStep ==
  ASSUME ManualInv, ManualType', StatesGo, AvailKept
  PROVE  AvailInv'
<1> SUFFICES ASSUME NEW n \in Node, nodes'[n] # None, nodes'[n].avail > 0
             PROVE  Used(nodes'[n].ids, taskState') + nodes'[n].avail <= Capacity
  BY DEF AvailInv
<1>1. nodes'[n].ids \in SUBSET Task /\ nodes'[n].avail \in Nat
  BY DEF ManualType, Stored
<1>2. CASE nodes[n] # None /\ nodes'[n].ids = nodes[n].ids /\ nodes'[n].avail = nodes[n].avail
  <2>1. Used(nodes[n].ids, taskState) + nodes[n].avail <= Capacity
    BY <1>2 DEF ManualInv, AvailInv
  <2>2. Used(nodes'[n].ids, taskState') <= Used(nodes[n].ids, taskState)
    BY <1>1, <1>2, UsedLess DEF StatesGo
  <2>3. Used(nodes'[n].ids, taskState') \in Nat /\ Used(nodes[n].ids, taskState) \in Nat
    BY <1>1, <1>2, UsedIs
  <2>4. QED
    BY <1>1, <1>2, <2>1, <2>2, <2>3, ConstantsAssumption
<1>3. CASE nodes'[n].avail = AvailableResources(nodes'[n].ids) /\ UNCHANGED taskState
  BY <1>1, <1>3, AvailableIs
<1>4. QED
  BY <1>2, <1>3 DEF AvailKept

(* A step that makes no new list, takes no task back, and leaves the offer *)
(* alone or ends it, keeps the invariant.                                  *)
LEMMA KeepStep ==
  ASSUME ManualInv, ManualType', ListsKept, StatesGo, AvailKept, missed \subseteq missed',
         \A t \in squeue' : t \in squeue \/ taskState[t] = "QUEUED",
         spc' \in {"put", "init"} =>
           (spc \in {"put", "init"} /\ soffer' = soffer) \/ Fits(soffer'.rec.ids, taskState'),
         spc = "init" =>
           \/ spc' = "init" /\ soffer' = soffer
           \/ soffer.task \notin squeue' /\ (soffer.task \in missed' \/ taskState'[soffer.task] # "QUEUED")
  PROVE  ManualInv'
<1>1. FitInv'
  BY FitKept
<1>2. AvailInv'
  BY AvailStep
<1>3. \A n \in Node, t \in Task : Touch(n, t)' => Touch(n, t)
  BY TouchKept DEF ManualInv
<1>4. OneInv'
  BY <1>3 DEF ManualInv, OneInv
<1>5. QueueInv'
  <2> SUFFICES ASSUME NEW t \in Task \ missed', NEW n \in Node, Touch(n, t)',
                      taskState'[t] = "QUEUED" \/ t \in squeue'
               PROVE  spc' = "init" /\ soffer'.task = t /\ soffer'.node = n
    BY DEF QueueInv
  <2>1. taskState[t] = "QUEUED" \/ t \in squeue
    BY DEF StatesGo
  <2>2. spc = "init" /\ soffer.task = t /\ soffer.node = n
    BY <1>3, <2>1 DEF ManualInv, QueueInv
  <2>3. QED
    BY <2>2
<1>6. QED
  BY <1>1, <1>2, <1>4, <1>5 DEF ManualInv

-----------------------------------------------------------------------------
(* The records, and the scheduler's check of the nodes.                    *)

(* A step that leaves the records alone.                                   *)
LEMMA SameNodes ==
  ASSUME UNCHANGED nodes
  PROVE  AvailKept
BY DEF AvailKept

(* A step that leaves the task states alone.                               *)
LEMMA SameStates ==
  ASSUME UNCHANGED taskState
  PROVE  StatesGo
BY DEF StatesGo

(* writing a state *)
LEMMA WriteIs ==
  ASSUME ManualType, NEW t \in Task, NEW s \in State, s # "QUEUED", WriteState(t, s)
  PROVE  /\ taskState' \in [Task -> State]
         /\ StatesGo
         /\ s = "INITIALIZING" => taskState'[t] # "QUEUED"
<1>1. taskState' = [taskState EXCEPT ![t] = IF TransitionAllowed(taskState[t], s) THEN s ELSE taskState[t]]
  BY DEF WriteState
<1>2. taskState' \in [Task -> State]
  BY <1>1 DEF ManualType
<1>3. \A u \in Task : u # t => taskState'[u] = taskState[u]
  BY <1>1 DEF ManualType
<1>4. taskState'[t] = IF TransitionAllowed(taskState[t], s) THEN s ELSE taskState[t]
  BY <1>1 DEF ManualType
<1>5. TransitionAllowed(taskState[t], s) => ~TerminalState(taskState[t])
  BY DEF TransitionAllowed
<1>6. StatesGo
  BY <1>3, <1>4, <1>5 DEF StatesGo
<1>7. s = "INITIALIZING" => taskState'[t] # "QUEUED"
  BY <1>4 DEF TransitionAllowed, TerminalState, Terminal
<1>8. QED
  BY <1>2, <1>6, <1>7

(* PutNode stores the list it is given and computes what is available.     *)
LEMMA PutIs ==
  ASSUME ManualType, NEW n \in Node, NEW rec \in Copy, PutNode(n, rec)
  PROVE  /\ ~Outdated(n, rec)
         /\ nodes' \in [Node -> Stored \cup {None}]
         /\ nodes'[n] # None /\ nodes'[n].ids = rec.ids
         /\ nodes'[n].avail = AvailableResources(rec.ids)
         /\ \A m \in Node : m # n => nodes'[m] = nodes[m]
<1> DEFINE new == [state |-> rec.state, ids |-> rec.ids, avail |-> AvailableResources(rec.ids),
                   stale |-> FALSE, version |-> rec.version]
<1>1. ~Outdated(n, rec)
  <2>1. nodes[n] # None => nodes[n].version = 0
    BY DEF ManualType, Stored
  <2>2. QED
    BY <2>1 DEF Outdated
<1>2. new \in Stored
  <2>1. rec.ids \in SUBSET Task
    BY DEF Copy
  <2>2. AvailableResources(rec.ids) \in Nat
    BY <2>1, AvailableIs
  <2>3. QED
    BY <2>1, <2>2 DEF Stored, Copy
<1>3. nodes' = [nodes EXCEPT ![n] = new]
  BY <1>1 DEF PutNode
<1>4. new # None /\ new.ids = rec.ids /\ new.avail = AvailableResources(rec.ids)
  BY <1>2, NoneIsNone
<1> HIDE DEF new
<1>5. nodes'[n] = new /\ \A m \in Node : m # n => nodes'[m] = nodes[m]
  BY <1>3 DEF ManualType
<1>6. nodes' \in [Node -> Stored \cup {None}]
  BY <1>2, <1>3 DEF ManualType
<1>7. QED
  BY <1>1, <1>4, <1>5, <1>6

(* So it keeps what is shown as available true.                            *)
LEMMA PutAvail ==
  ASSUME ManualType, NEW n \in Node, NEW rec \in Copy, PutNode(n, rec), UNCHANGED taskState
  PROVE  AvailKept
BY PutIs DEF AvailKept

(* The timeout of a node's ping keeps the invariant.                       *)
LEMMA PingStep ==
  ASSUME ManualInv, NEW n \in Node, PingTimeout(n)
  PROVE  ManualInv'
<1>1. ManualType /\ nodes[n] # None /\ UNCHANGED <<taskState, schedVars, nodeVars, workVars>>
  BY DEF ManualInv, PingTimeout
<1>2. nodes[n] \in Stored
  BY <1>1 DEF ManualType
<1>3. [nodes[n] EXCEPT !.stale = TRUE] \in Stored
  BY <1>2 DEF Stored
<1>4. nodes' = [nodes EXCEPT ![n] = [nodes[n] EXCEPT !.stale = TRUE]]
  BY DEF PingTimeout
<1>5. /\ nodes'[n] # None /\ nodes'[n].ids = nodes[n].ids /\ nodes'[n].avail = nodes[n].avail
      /\ \A m \in Node : m # n => nodes'[m] = nodes[m]
  <2>1. nodes'[n] = [nodes[n] EXCEPT !.stale = TRUE]
    BY <1>1, <1>4 DEF ManualType
  <2>2. nodes'[n] # None
    BY <1>3, <2>1, NoneIsNone
  <2>3. nodes'[n].ids = nodes[n].ids /\ nodes'[n].avail = nodes[n].avail
    BY <1>2, <2>1 DEF Stored
  <2>4. \A m \in Node : m # n => nodes'[m] = nodes[m]
    BY <1>1, <1>4 DEF ManualType
  <2>5. QED
    BY <2>2, <2>3, <2>4
<1>6. nodes' \in [Node -> Stored \cup {None}]
  BY <1>1, <1>3, <1>4 DEF ManualType
<1>7. ManualType'
  BY <1>1, <1>6 DEF ManualType, schedVars, nodeVars, workVars
<1>8. ListsKept
  BY <1>1, <1>5, KnownIs DEF ListsKept, schedVars, nodeVars, workVars
<1>9. AvailKept
  BY <1>1, <1>5 DEF AvailKept
<1>10. QED
  BY <1>1, <1>7, <1>8, <1>9, SameStates, KeepStep DEF schedVars

(* only a task's state is written *)
LEMMA StateStep ==
  ASSUME ManualInv, NEW t \in Task, NEW s \in State, s # "QUEUED", WriteState(t, s),
         UNCHANGED <<nodes, schedVars, nodeVars, workVars>>
  PROVE  ManualInv'
<1>1. ManualType
  BY DEF ManualInv
<1>2. taskState' \in [Task -> State] /\ StatesGo
  BY <1>1, WriteIs
<1>3. ManualType'
  BY <1>1, <1>2 DEF ManualType, schedVars, nodeVars, workVars
<1>4. ListsKept
  BY <1>1, KnownIs DEF ListsKept, schedVars, nodeVars, workVars
<1>5. QED
  BY <1>2, <1>3, <1>4, SameNodes, KeepStep DEF schedVars

(* So does the end of a task of a node that is gone.                       *)
LEMMA EndTaskStep ==
  ASSUME ManualInv, NEW n \in Node, EndTaskOfGoneNode(n)
  PROVE  ManualInv'
<1>1. ManualType /\ UNCHANGED <<nodes, spc, squeue, soffer, nodeVars, workVars>> /\ spc = "check"
  BY DEF ManualInv, EndTaskOfGoneNode
<1>2. n \in DOMAIN supdated /\ supdated[n] \in Copy
  BY <1>1 DEF EndTaskOfGoneNode, ManualType
<1>3. PICK t \in supdated[n].ids :
        WriteOrMiss(t, "SYSTEM_ERROR") /\ supdated' = [supdated EXCEPT ![n].ids = @ \ {t}]
  BY DEF EndTaskOfGoneNode
<1>4. t \in Task
  BY <1>2 DEF Copy
<1>5. taskState' \in [Task -> State] /\ StatesGo /\ missed \subseteq missed'
  <2>1. CASE WriteState(t, "SYSTEM_ERROR") /\ UNCHANGED missed
    BY <1>1, <1>4, <2>1, WriteIs DEF State, Terminal
  <2>2. CASE missed' = missed \cup {t} /\ UNCHANGED taskState
    BY <1>1, <2>2, SameStates DEF ManualType
  <2>3. QED
    BY <1>3, <2>1, <2>2 DEF WriteOrMiss
<1>6. [supdated[n] EXCEPT !.ids = @ \ {t}] \in Copy
  BY <1>2 DEF Copy
<1>7. /\ DOMAIN supdated' = DOMAIN supdated
      /\ supdated' = [m \in DOMAIN supdated' |-> supdated'[m]]
      /\ supdated'[n] = [supdated[n] EXCEPT !.ids = @ \ {t}]
      /\ \A m \in DOMAIN supdated : m # n => supdated'[m] = supdated[m]
  BY <1>1, <1>2, <1>3 DEF ManualType
<1>8. \A m \in DOMAIN supdated' : supdated'[m] \in Copy /\ supdated'[m].ids \subseteq supdated[m].ids
  <2>1. supdated'[n].ids \subseteq supdated[n].ids
    BY <1>2, <1>7 DEF Copy
  <2>2. QED
    BY <1>1, <1>6, <1>7, <2>1 DEF ManualType
<1>9. ManualType'
  BY <1>1, <1>5, <1>7, <1>8 DEF ManualType, nodeVars, workVars
<1>10. \A m \in Node : m \in DOMAIN supdated' => Known(m, supdated'[m].ids)
  BY <1>1, <1>7, <1>8, KnownIs, KnownSub
<1>11. ListsKept
  BY <1>1, <1>10, KnownIs DEF ListsKept, nodeVars, workVars
<1>12. QED
  BY <1>1, <1>5, <1>9, <1>11, SameNodes, KeepStep

(* CheckNodes drops records, whether or not it deletes or puts *)
LEMMA HandledIs ==
  ASSUME ManualType, NEW n \in DOMAIN supdated, Handled(n)
  PROVE  /\ DOMAIN supdated' \subseteq DOMAIN supdated
         /\ supdated' = [m \in DOMAIN supdated' |-> supdated'[m]]
         /\ \A m \in DOMAIN supdated' : supdated'[m] = supdated[m]
BY DEF Handled

(* So does the deletion of such a node.                                    *)
LEMMA DeleteStep ==
  ASSUME ManualInv, NEW n \in Node, DeleteNode(n)
  PROVE  ManualInv'
<1>1. /\ ManualType /\ UNCHANGED <<taskState, spc, squeue, soffer, missed, nodeVars, workVars>>
      /\ spc = "check" /\ n \in DOMAIN supdated /\ Handled(n)
  BY DEF ManualInv, DeleteNode
<1>2. /\ DOMAIN supdated' \subseteq DOMAIN supdated
      /\ supdated' = [m \in DOMAIN supdated' |-> supdated'[m]]
      /\ \A m \in DOMAIN supdated' : supdated'[m] = supdated[m]
  BY <1>1, HandledIs
<1>3. nodes' = [nodes EXCEPT ![n] = None]
  BY DEF DeleteNode
<1>4. nodes'[n] = None /\ \A m \in Node : m # n => nodes'[m] = nodes[m]
  BY <1>1, <1>3 DEF ManualType
<1>5. nodes' \in [Node -> Stored \cup {None}]
  BY <1>1, <1>3 DEF ManualType
<1>6. ManualType'
  BY <1>1, <1>2, <1>5 DEF ManualType, nodeVars, workVars
<1>7. ListsKept
  BY <1>1, <1>2, <1>4, KnownIs DEF ListsKept, nodeVars, workVars
<1>8. AvailKept
  BY <1>4 DEF AvailKept
<1>9. QED
  BY <1>1, <1>6, <1>7, <1>8, SameStates, KeepStep

(* So does marking a node dead.                                            *)
LEMMA MarkDeadStep ==
  ASSUME ManualInv, NEW n \in Node, MarkNodeDead(n)
  PROVE  ManualInv'
<1>1. /\ ManualType /\ UNCHANGED <<taskState, spc, squeue, soffer, missed, nodeVars, workVars>>
      /\ spc = "check" /\ n \in DOMAIN supdated /\ Handled(n) /\ PutNode(n, supdated[n])
  BY DEF ManualInv, MarkNodeDead
<1>2. /\ DOMAIN supdated' \subseteq DOMAIN supdated
      /\ supdated' = [m \in DOMAIN supdated' |-> supdated'[m]]
      /\ \A m \in DOMAIN supdated' : supdated'[m] = supdated[m]
  BY <1>1, HandledIs
<1>3. supdated[n] \in Copy
  BY <1>1 DEF ManualType
<1>4. /\ nodes' \in [Node -> Stored \cup {None}]
      /\ nodes'[n] # None /\ nodes'[n].ids = supdated[n].ids
      /\ \A m \in Node : m # n => nodes'[m] = nodes[m]
  BY <1>1, <1>3, PutIs
<1>5. AvailKept
  BY <1>1, <1>3, PutAvail
<1>6. ManualType'
  BY <1>1, <1>2, <1>4 DEF ManualType, nodeVars, workVars
<1>7. ListsKept
  BY <1>1, <1>2, <1>4, KnownIs DEF ListsKept, nodeVars, workVars
<1>8. QED
  BY <1>1, <1>5, <1>6, <1>7, SameStates, KeepStep

-----------------------------------------------------------------------------
(* Scheduling.                                                             *)

(* Listing the nodes, where the scheduler takes its copies, keeps the      *)
(* invariant.                                                              *)
LEMMA ListNodesStep ==
  ASSUME ManualInv, ListNodes
  PROVE  ManualInv'
<1>1. /\ ManualType /\ UNCHANGED <<dbVars, squeue, soffer, missed, nodeVars, workVars>>
      /\ spc = "offer" /\ spc' = "check"
  BY DEF ManualInv, ListNodes
<1>2. /\ DOMAIN supdated' \subseteq Node
      /\ supdated' = [m \in DOMAIN supdated' |-> supdated'[m]]
      /\ \A m \in DOMAIN supdated' : supdated'[m] \in Copy /\ nodes[m] # None /\ supdated'[m].ids = nodes[m].ids
  <2>1. CASE supdated' = <<>>
    BY <2>1
  <2>2. CASE supdated' = [n \in {n \in Listed : nodes[n].state = "GONE" \/ Aged(nodes[n]) # nodes[n]} |->
                            CopyOf(Aged(nodes[n]))]
    <3>1. DOMAIN supdated' \subseteq Listed
      BY <2>2
    <3>2. \A m \in DOMAIN supdated' : supdated'[m] = CopyOf(Aged(nodes[m]))
      BY <2>2
    <3>3. ASSUME NEW m \in Listed
          PROVE  CopyOf(Aged(nodes[m])) \in Copy /\ CopyOf(Aged(nodes[m])).ids = nodes[m].ids
      <4>1. nodes[m] \in Stored
        BY <1>1, <3>3 DEF Listed, ManualType
      <4>2. Aged(nodes[m]) \in Stored /\ Aged(nodes[m]).ids = nodes[m].ids
        BY <4>1 DEF Aged, Stored, NodeStates
      <4>3. QED
        BY <4>2 DEF CopyOf, Copy, Stored
    <3>4. supdated' = [m \in DOMAIN supdated' |-> supdated'[m]]
      BY <2>2
    <3>5. \A m \in DOMAIN supdated' : supdated'[m] \in Copy /\ nodes[m] # None /\ supdated'[m].ids = nodes[m].ids
      BY <3>1, <3>2, <3>3 DEF Listed
    <3>6. DOMAIN supdated' \subseteq Node
      BY <3>1 DEF Listed
    <3>7. QED
      BY <3>4, <3>5, <3>6
  <2>3. QED
    BY <2>1, <2>2 DEF ListNodes
<1>3. ManualType'
  BY <1>1, <1>2 DEF ManualType, dbVars, nodeVars, workVars
<1>4. ListsKept
  BY <1>1, <1>2, KnownIs DEF ListsKept, dbVars, nodeVars, workVars
<1>5. QED
  BY <1>1, <1>3, <1>4, SameNodes, SameStates, KeepStep DEF dbVars

(* So does a check of the nodes that fails.                                *)
LEMMA CheckFailsStep ==
  ASSUME ManualInv, CheckNodesFails
  PROVE  ManualInv'
<1>1. /\ ManualType /\ UNCHANGED <<dbVars, spc, squeue, soffer, missed, nodeVars, workVars>>
      /\ spc = "check" /\ supdated' = <<>>
  BY DEF ManualInv, CheckNodesFails
<1>2. ManualType'
  BY <1>1 DEF ManualType, dbVars, nodeVars, workVars
<1>3. ListsKept
  BY <1>1, KnownIs DEF ListsKept, dbVars, nodeVars, workVars
<1>4. QED
  BY <1>1, <1>2, <1>3, SameNodes, SameStates, KeepStep DEF dbVars

(* So does reading the queue.                                              *)
LEMMA ReadQueueStep ==
  ASSUME ManualInv, ReadQueue
  PROVE  ManualInv'
<1>1. /\ ManualType /\ UNCHANGED <<dbVars, supdated, soffer, missed, nodeVars, workVars>>
      /\ spc = "check" /\ spc' = "offer" /\ squeue' = FirstQueued(Chunk)
  BY DEF ManualInv, ReadQueue
<1>2. \A t \in squeue' : t \in Task /\ taskState[t] = "QUEUED"
  BY <1>1 DEF FirstQueued
<1>3. ManualType'
  BY <1>1, <1>2 DEF ManualType, dbVars, nodeVars, workVars
<1>4. ListsKept
  BY <1>1, KnownIs DEF ListsKept, dbVars, nodeVars, workVars
<1>5. QED
  BY <1>1, <1>2, <1>3, <1>4, SameNodes, SameStates, KeepStep DEF dbVars

(* So does a task that no node can take.                                   *)
LEMMA NoOfferStep ==
  ASSUME ManualInv, NEW t \in Task, NoOffer(t)
  PROVE  ManualInv'
<1>1. /\ ManualType /\ UNCHANGED <<dbVars, spc, supdated, soffer, missed, nodeVars, workVars>>
      /\ spc = "offer" /\ squeue' = squeue \ {t}
  BY DEF ManualInv, NoOffer
<1>2. ManualType'
  BY <1>1 DEF ManualType, dbVars, nodeVars, workVars
<1>3. ListsKept
  BY <1>1, KnownIs DEF ListsKept, dbVars, nodeVars, workVars
<1>4. QED
  BY <1>1, <1>2, <1>3, SameNodes, SameStates, KeepStep DEF dbVars

(* An offer is made of a record that has room for the task, so that the    *)
(* list with the task fits.                                                *)
LEMMA GetOfferStep ==
  ASSUME ManualInv, NEW t \in Task, GetOffer(t)
  PROVE  ManualInv'
<1>1. /\ ManualType /\ UNCHANGED <<dbVars, supdated, squeue, missed, nodeVars, workVars>>
      /\ spc = "offer" /\ spc' = "put" /\ t \in squeue
  BY DEF ManualInv, GetOffer
<1>2. PICK n \in Node :
        /\ Match(nodes[n], t)
        /\ soffer' = [node |-> n, task |-> t, rec |-> [CopyOf(nodes[n]) EXCEPT !.ids = @ \cup {t}]]
  BY DEF GetOffer
<1>3. nodes[n] \in Stored /\ nodes[n] # None /\ nodes[n].avail > 0 /\ nodes[n].avail >= Request[t]
  BY <1>1, <1>2 DEF Match, ManualType
<1>4. CopyOf(nodes[n]) \in Copy /\ CopyOf(nodes[n]).ids = nodes[n].ids
  BY <1>3 DEF CopyOf, Copy, Stored
<1>5. /\ [CopyOf(nodes[n]) EXCEPT !.ids = @ \cup {t}] \in Copy
      /\ [CopyOf(nodes[n]) EXCEPT !.ids = @ \cup {t}].ids = nodes[n].ids \cup {t}
  BY <1>4 DEF Copy
<1>6. soffer' \in Offer /\ soffer'.node = n /\ soffer'.task = t /\ soffer'.rec.ids = nodes[n].ids \cup {t}
  BY <1>2, <1>5 DEF Offer
<1>7. ManualType'
  BY <1>1, <1>6 DEF ManualType, dbVars, nodeVars, workVars
<1>8. Known(soffer'.node, soffer'.rec.ids \ {soffer'.task})
  <2>1. Known(n, nodes[n].ids)
    BY <1>1, <1>3, KnownIs
  <2>2. soffer'.rec.ids \ {soffer'.task} \subseteq nodes[n].ids
    BY <1>6
  <2>3. QED
    BY <1>6, <2>1, <2>2, KnownSub
<1>9. ListsKept
  BY <1>1, <1>8, KnownIs DEF ListsKept, dbVars, nodeVars, workVars
<1>10. Fits(soffer'.rec.ids, taskState')
  <2>1. PICK S : S = nodes[n].ids
    OBVIOUS
  <2>2. S \in SUBSET Task
    BY <1>3, <2>1 DEF Stored
  <2>3. Used(S, taskState) + nodes[n].avail <= Capacity
    BY <1>3, <2>1 DEF ManualInv, AvailInv
  <2>4. Used(S \cup {t}, taskState) <= Used(S, taskState) + Request[t]
    <3> DEFINE old == {u \in S : ~TerminalState(taskState[u])}
               new == {u \in S \cup {t} : ~TerminalState(taskState[u])}
    <3>1. Used(S, taskState) = SumOf(old) /\ Used(S \cup {t}, taskState) = SumOf(new)
      BY DEF Used
    <3>2. old \in SUBSET Task /\ new \in SUBSET Task /\ SumOf(old) \in Nat /\ SumOf(new) \in Nat
      BY <2>2, SumWorks DEF Summed
    <3>3. Request[t] \in Nat
      BY ConstantsAssumption
    <3>4. CASE t \in new
      <4>1. SumOf(new) = Request[t] + SumOf(new \ {t})
        BY <3>2, <3>4, SumRemove
      <4>2. new \ {t} \subseteq old
        OBVIOUS
      <4>3. SumOf(new \ {t}) <= SumOf(old) /\ SumOf(new \ {t}) \in Nat
        <5>1. new \ {t} \in SUBSET Task
          BY <3>2
        <5>2. QED
          BY <3>2, <4>2, <5>1, SumMonotone, SumWorks DEF Summed
      <4> HIDE DEF old, new
      <4>4. QED
        BY <3>1, <3>2, <3>3, <4>1, <4>3
    <3>5. CASE t \notin new
      <4>1. new \subseteq old
        BY <3>5
      <4>2. SumOf(new) <= SumOf(old)
        BY <3>2, <4>1, SumMonotone
      <4> HIDE DEF old, new
      <4>3. QED
        BY <3>1, <3>2, <3>3, <4>2
    <3>6. QED
      BY <3>4, <3>5
  <2>5. /\ Used(S, taskState) \in Nat /\ Used(S \cup {t}, taskState) \in Nat
        /\ Request[t] \in Nat /\ nodes[n].avail \in Nat
    BY <1>3, <2>2, UsedIs, ConstantsAssumption DEF Stored
  <2>6. Used(S \cup {t}, taskState) <= Capacity
    BY <1>3, <2>3, <2>4, <2>5, ConstantsAssumption
  <2>7. QED
    BY <1>1, <1>6, <2>1, <2>6 DEF Fits, dbVars
<1>11. QED
  BY <1>1, <1>7, <1>9, <1>10, SameNodes, SameStates, KeepStep DEF dbVars

(* Writing INITIALIZING takes the task out of the queue, or fails and      *)
(* counts it as missed.                                                    *)
LEMMA MarkStep ==
  ASSUME ManualInv, MarkInitializing
  PROVE  ManualInv'
<1>1. /\ ManualType /\ UNCHANGED <<nodes, supdated, nodeVars, workVars>>
      /\ spc = "init" /\ spc' = "offer" /\ squeue' = squeue \ {soffer.task}
      /\ WriteOrMiss(soffer.task, "INITIALIZING")
  BY DEF ManualInv, MarkInitializing
<1>2. soffer.task \in Task
  BY <1>1 DEF ManualType, Offer
<1>3. /\ taskState' \in [Task -> State] /\ StatesGo /\ missed \subseteq missed'
      /\ soffer.task \in missed' \/ taskState'[soffer.task] # "QUEUED"
  <2>1. CASE WriteState(soffer.task, "INITIALIZING") /\ UNCHANGED missed
    BY <1>1, <1>2, <2>1, WriteIs DEF State, Active
  <2>2. CASE missed' = missed \cup {soffer.task} /\ UNCHANGED taskState
    BY <1>1, <2>2, SameStates DEF ManualType
  <2>3. QED
    BY <1>1, <2>1, <2>2 DEF WriteOrMiss
<1>4. ManualType'
  BY <1>1, <1>3 DEF ManualType, nodeVars, workVars
<1>5. ListsKept
  BY <1>1, KnownIs DEF ListsKept, nodeVars, workVars
<1>6. soffer.task \notin squeue'
  BY <1>1
<1>7. QED
  BY <1>1, <1>3, <1>4, <1>5, <1>6, SameNodes, KeepStep

(* Storing an offer brings the task, which is with no other node, to its   *)
(* node.                                                                   *)
LEMMA AssignStep ==
  ASSUME ManualInv, AssignTask
  PROVE  ManualInv'
<1>1. /\ ManualType /\ UNCHANGED <<taskState, supdated, missed, nodeVars, workVars>>
      /\ spc = "put" /\ soffer \in Offer /\ soffer.task \in squeue
  BY DEF ManualInv, AssignTask, ManualType
<1>2. CASE spc' = "offer" /\ squeue' = squeue \ {soffer.task} /\ soffer' = None /\ UNCHANGED nodes
  <2>1. ManualType'
    BY <1>1, <1>2 DEF ManualType, nodeVars, workVars
  <2>2. ListsKept
    BY <1>1, <1>2, KnownIs DEF ListsKept, nodeVars, workVars
  <2>3. QED
    BY <1>1, <1>2, <2>1, <2>2, SameNodes, SameStates, KeepStep
<1>3. CASE PutNode(soffer.node, soffer.rec) /\ spc' = "init" /\ UNCHANGED <<squeue, soffer>>
  <2>1. PICK n, t : n = soffer.node /\ t = soffer.task
    OBVIOUS
  <2>2. n \in Node /\ t \in Task /\ soffer.rec \in Copy /\ soffer.rec.ids \in SUBSET Task
    BY <1>1, <2>1 DEF Offer, Copy
  <2>3. /\ nodes' \in [Node -> Stored \cup {None}]
        /\ nodes'[n] # None /\ nodes'[n].ids = soffer.rec.ids
        /\ \A m \in Node : m # n => nodes'[m] = nodes[m]
    BY <1>1, <1>3, <2>1, <2>2, PutIs
  <2>4. AvailKept
    BY <1>1, <1>3, <2>1, <2>2, PutAvail
  <2>5. ManualType'
    BY <1>1, <1>3, <2>3 DEF ManualType, nodeVars, workVars
  <2>6. ASSUME NEW m \in Node, NEW S \in SUBSET Task, Held(m, S)'
        PROVE  Known(m, S) \/ (m = n /\ S = soffer.rec.ids)
    <3>1. CASE nodes'[m] # None /\ S = nodes'[m].ids
      BY <3>1, <2>3, <1>1, KnownIs
    <3>2. CASE m \in DOMAIN supdated' /\ S = supdated'[m].ids
      BY <3>2, <1>1, KnownIs
    <3>3. CASE m = soffer'.node /\ S = soffer'.rec.ids \ {soffer'.task}
      BY <3>3, <1>1, <1>3, KnownIs
    <3>4. CASE S = nseen'[m]
      BY <3>4, <1>1, KnownIs DEF nodeVars
    <3>5. CASE \E u \in Task : wpc'[m][u] = "put" /\ S = wseen'[m][u].ids
      BY <3>5, <1>1, KnownIs DEF workVars
    <3>6. QED
      BY <2>6, <3>1, <3>2, <3>3, <3>4, <3>5 DEF Held
  <2>7. ASSUME NEW m \in Node, NEW u \in Task, Touch(m, u)' PROVE Touch(m, u) \/ (m = n /\ u = t)
    <3>1. CASE wpc'[m][u] # "none"
      BY <3>1, <1>1 DEF Touch, workVars
    <3>2. CASE Known(m, {u})'
      <4>1. PICK R \in SUBSET Task : Held(m, R)' /\ u \in R
        BY <3>2 DEF Known
      <4>2. CASE Known(m, R)
        BY <4>1, <4>2, KnownSub DEF Touch
      <4>3. CASE m = n /\ R = soffer.rec.ids /\ u # t
        <5>1. Known(n, soffer.rec.ids \ {t})
          BY <1>1, <2>1, KnownIs
        <5>2. {u} \subseteq soffer.rec.ids \ {t}
          BY <4>1, <4>3
        <5>3. QED
          BY <4>3, <5>1, <5>2, KnownSub DEF Touch
      <4>4. QED
        BY <2>6, <4>1, <4>2, <4>3
    <3>3. QED
      BY <2>7, <3>1, <3>2 DEF Touch
  <2>8. t \notin missed => \A m \in Node : ~Touch(m, t)
    BY <1>1, <2>1, <2>2 DEF ManualInv, QueueInv
  <2>9. FitInv'
    <3>1. Fits(soffer.rec.ids, taskState)
      BY <1>1 DEF ManualInv, FitInv
    <3>2. ASSUME NEW m \in Node, NEW S \in SUBSET Task, Known(m, S) PROVE Fits(S, taskState)
      <4>1. PICK R \in SUBSET Task : Held(m, R) /\ S \subseteq R
        BY <3>2 DEF Known
      <4>2. Fits(R, taskState)
        BY <4>1 DEF ManualInv, FitInv
      <4>3. QED
        BY <4>1, <4>2, FitsLess
    <3>3. QED
      BY <1>1, <1>3, <2>6, <3>1, <3>2 DEF FitInv
  <2>10. AvailInv'
    BY <1>1, <2>4, <2>5, SameStates, AvailStep
  <2>11. OneInv'
    BY <1>1, <2>7, <2>8 DEF ManualInv, OneInv
  <2>12. QueueInv'
    <3> SUFFICES ASSUME NEW u \in Task \ missed', NEW m \in Node, Touch(m, u)',
                        taskState'[u] = "QUEUED" \/ u \in squeue'
                 PROVE  spc' = "init" /\ soffer'.task = u /\ soffer'.node = m
      BY DEF QueueInv
    <3>1. ~Touch(m, u)
      BY <1>1, <1>3 DEF ManualInv, QueueInv
    <3>2. QED
      BY <3>1, <2>7, <1>3, <2>1
  <2>13. QED
    BY <2>5, <2>9, <2>10, <2>11, <2>12 DEF ManualInv
<1>4. QED
  BY <1>2, <1>3 DEF AssignTask

-----------------------------------------------------------------------------
(* The processes of the nodes and their workers.                           *)

(* what a node process keeps is at most its list, which is read back or lost *)
LEMMA NodeStep ==
  ASSUME ManualInv, UNCHANGED <<dbVars, schedVars, workVars>>, NEW n \in Node,
         NEW S \in SUBSET Task, Known(n, S), NEW p \in NodeStates,
         nseen' = [nseen EXCEPT ![n] = S] \/ UNCHANGED nseen,
         nstate' = [nstate EXCEPT ![n] = p] \/ UNCHANGED nstate
  PROVE  ManualInv'
<1>1. ManualType
  BY DEF ManualInv
<1>2. ManualType'
  BY <1>1 DEF ManualType, dbVars, schedVars, workVars
<1>3. \A m \in Node : Known(m, nseen'[m])
  BY <1>1, KnownIs DEF ManualType
<1>4. ListsKept
  BY <1>1, <1>3, KnownIs DEF ListsKept, dbVars, schedVars, workVars
<1>5. QED
  BY <1>2, <1>4, SameNodes, SameStates, KeepStep DEF dbVars, schedVars

(* The read of a sync keeps the invariant.                                 *)
LEMMA SyncGetStep ==
  ASSUME ManualInv, NEW n \in Node, SyncGet(n)
  PROVE  ManualInv'
<1>1. ManualType
  BY DEF ManualInv
<1>2. GetNode(n) \in SUBSET Task /\ Known(n, GetNode(n))
  <2>1. CASE nodes[n] = None
    BY <1>1, <2>1, KnownIs DEF GetNode
  <2>2. CASE nodes[n] # None
    BY <1>1, <2>2, KnownIs DEF GetNode, ManualType, Stored
  <2>3. QED
    BY <2>1, <2>2
<1>3. "ALIVE" \in NodeStates
  BY DEF NodeStates
<1>4. QED
  BY <1>2, <1>3, NodeStep DEF SyncGet

(* A process that ends takes its lists with it.                            *)
LEMMA KilledStep ==
  ASSUME ManualInv, NEW n \in Node, Killed(n), UNCHANGED <<taskState, schedVars>>,
         ManualType', \A m \in Node : nodes'[m] # None => Known(m, nodes'[m].ids), AvailKept
  PROVE  ManualInv'
<1>1. ManualType
  BY DEF ManualInv
<1>2. \A m \in Node : Known(m, nseen'[m])
  BY <1>1, KnownIs DEF Killed, ManualType
<1>3. \A m \in Node, u \in Task : wpc'[m][u] # "none" => wpc'[m][u] = wpc[m][u] /\ wseen'[m][u] = wseen[m][u]
  BY <1>1 DEF Killed, ManualType
<1>4. ListsKept
  BY <1>1, <1>2, <1>3, KnownIs DEF ListsKept, schedVars
<1>5. QED
  BY <1>4, SameStates, KeepStep DEF schedVars

(* It leaves the variables well typed.                                     *)
LEMMA KilledType ==
  ASSUME ManualType, NEW n \in Node, Killed(n), UNCHANGED <<taskState, schedVars>>,
         nodes' \in [Node -> Stored \cup {None}]
  PROVE  ManualType'
<1>1. nstate' \in [Node -> NodeStates] /\ nseen' \in [Node -> SUBSET Task]
  BY DEF ManualType, Killed, NodeStates
<1>2. /\ wpc' \in [Node -> [Task -> {"none", "work", "remove", "put", "done"}]]
      /\ wseen' \in [Node -> [Task -> Copy \cup {None}]]
  BY DEF ManualType, Killed
<1>3. \A m \in Node, u \in Task : wpc'[m][u] = "put" => wseen'[m][u] \in Copy
  BY DEF ManualType, Killed
<1>4. QED
  BY <1>1, <1>2, <1>3 DEF ManualType, schedVars

(* So the end of a process keeps the invariant.                            *)
LEMMA ProcessEnds ==
  ASSUME ManualInv, NEW n \in Node, Killed(n), UNCHANGED <<dbVars, schedVars>>
  PROVE  ManualInv'
<1>1. ManualType /\ UNCHANGED <<taskState, nodes>>
  BY DEF ManualInv, dbVars
<1>2. ManualType'
  BY <1>1, KilledType DEF ManualType
<1>3. \A m \in Node : nodes'[m] # None => Known(m, nodes'[m].ids)
  BY <1>1, KnownIs
<1>4. QED
  BY <1>1, <1>2, <1>3, SameNodes, KilledStep

(* the end of a sync, with the record as it is then *)
LEMMA SyncedStep ==
  ASSUME ManualInv, NEW n \in Node, Synced(n), UNCHANGED <<taskState, schedVars>>,
         nodes' \in [Node -> Stored \cup {None}],
         \A m \in Node : nodes'[m] # None => Known(m, nodes'[m].ids), AvailKept
  PROVE  ManualInv'
<1>1. ManualType
  BY DEF ManualInv
<1>2. CASE Killed(n)
  BY <1>1, <1>2, KilledType, KilledStep
<1>3. CASE nseen' = [nseen EXCEPT ![n] = {}] /\ UNCHANGED <<nstate, workVars>>
  <2>1. ManualType'
    BY <1>1, <1>3 DEF ManualType, schedVars, workVars
  <2>2. \A m \in Node : Known(m, nseen'[m])
    BY <1>1, <1>3, KnownIs DEF ManualType
  <2>3. ListsKept
    BY <1>1, <1>3, <2>2, KnownIs DEF ListsKept, schedVars, workVars
  <2>4. QED
    BY <2>1, <2>3, SameStates, KeepStep DEF schedVars
<1>4. QED
  BY <1>2, <1>3 DEF Synced

(* Writing back the record that a sync read keeps the invariant, though    *)
(* others may have written in between.                                     *)
LEMMA SyncPutStep ==
  ASSUME ManualInv, NEW n \in Node, SyncPut(n)
  PROVE  ManualInv'
<1>1. ManualType /\ UNCHANGED <<taskState, schedVars>> /\ Synced(n)
  BY DEF ManualInv, SyncPut
<1> DEFINE rec == [state |-> nstate[n], ids |-> nseen[n], version |-> 0]
<1>2. rec \in Copy /\ rec.ids = nseen[n]
  BY <1>1 DEF ManualType, Copy
<1>3. PutNode(n, rec)
  BY DEF SyncPut
<1> HIDE DEF rec
<1>4. /\ nodes' \in [Node -> Stored \cup {None}]
      /\ nodes'[n].ids = nseen[n]
      /\ \A m \in Node : m # n => nodes'[m] = nodes[m]
  BY <1>1, <1>2, <1>3, PutIs
<1>5. AvailKept
  BY <1>1, <1>2, <1>3, PutAvail
<1>6. \A m \in Node : nodes'[m] # None => Known(m, nodes'[m].ids)
  BY <1>1, <1>4, KnownIs
<1>7. QED
  BY <1>1, <1>4, <1>5, <1>6, SyncedStep

(* So does a sync that fails.                                              *)
LEMMA SyncFailsStep ==
  ASSUME ManualInv, NEW n \in Node, SyncFails(n)
  PROVE  ManualInv'
<1>1. ManualType /\ UNCHANGED <<taskState, nodes, schedVars>> /\ Synced(n)
  BY DEF ManualInv, SyncFails, dbVars
<1>2. \A m \in Node : nodes'[m] # None => Known(m, nodes'[m].ids)
  BY <1>1, KnownIs
<1>3. nodes' \in [Node -> Stored \cup {None}]
  BY <1>1 DEF ManualType
<1>4. QED
  BY <1>1, <1>2, <1>3, SameNodes, SyncedStep

(* So does starting a worker for each task that a sync found.              *)
LEMMA SyncStartStep ==
  ASSUME ManualInv, NEW n \in Node, SyncStart(n)
  PROVE  ManualInv'
<1>1. ManualType /\ UNCHANGED <<dbVars, schedVars, nstate, nseen, wseen>>
  BY DEF ManualInv, SyncStart
<1> DEFINE new == Add(n, nseen[n])
<1>2. wpc' = [wpc EXCEPT ![n] = [t \in Task |-> IF t \in new THEN "work" ELSE wpc[n][t]]]
  BY DEF SyncStart
<1>3. new \subseteq nseen[n]
  BY DEF Add
<1> HIDE DEF new
<1>4. /\ wpc' \in [Node -> [Task -> {"none", "work", "remove", "put", "done"}]]
      /\ \A m \in Node, u \in Task : m # n \/ u \notin new => wpc'[m][u] = wpc[m][u]
      /\ \A u \in new \cap Task : wpc'[n][u] = "work"
  BY <1>1, <1>2 DEF ManualType
<1>5. \A m \in Node, u \in Task : wpc'[m][u] = "put" => wpc[m][u] = "put"
  BY <1>4
<1>6. ManualType'
  BY <1>1, <1>4, <1>5 DEF ManualType, dbVars, schedVars
<1>7. \A m \in Node, u \in Task : wpc'[m][u] # "none" => wpc[m][u] # "none" \/ Known(m, {u})
  <2>1. \A u \in new : Known(n, {u})
    BY <1>1, <1>3, KnownIs, KnownSub
  <2>2. QED
    BY <1>4, <2>1
<1>8. ListsKept
  BY <1>1, <1>5, <1>7, KnownIs DEF ListsKept, dbVars, schedVars
<1>9. QED
  BY <1>1, <1>6, <1>8, SameNodes, SameStates, KeepStep DEF dbVars, schedVars

(* a worker moves on *)
LEMMA MoveStep ==
  ASSUME ManualInv, NEW n \in Node, NEW t \in Task, NEW p \in {"none", "remove", "done"},
         wpc[n][t] # "none", wpc' = [wpc EXCEPT ![n][t] = p],
         UNCHANGED <<nodes, spc, supdated, squeue, soffer, missed, nodeVars, wseen>>,
         taskState' \in [Task -> State], StatesGo
  PROVE  ManualInv'
<1>1. ManualType
  BY DEF ManualInv
<1>2. /\ wpc' \in [Node -> [Task -> {"none", "work", "remove", "put", "done"}]]
      /\ wpc'[n][t] = p
      /\ \A m \in Node, u \in Task : m # n \/ u # t => wpc'[m][u] = wpc[m][u]
  BY <1>1 DEF ManualType
<1>3. \A m \in Node, u \in Task : wpc'[m][u] = "put" => wpc[m][u] = "put"
  BY <1>2
<1>4. ManualType'
  BY <1>1, <1>2, <1>3 DEF ManualType, nodeVars
<1>5. \A m \in Node, u \in Task : wpc'[m][u] # "none" => wpc[m][u] # "none"
  BY <1>2
<1>6. ListsKept
  BY <1>1, <1>3, <1>5, KnownIs DEF ListsKept, nodeVars
<1>7. QED
  BY <1>4, <1>6, SameNodes, KeepStep

(* So does the end of a worker.                                            *)
LEMMA WorkerEndsStep ==
  ASSUME ManualInv, NEW n \in Node, NEW t \in Task, WorkerEnds(n, t)
  PROVE  ManualInv'
<1>1. ManualType
  BY DEF ManualInv
<1>2. taskState' \in [Task -> State] /\ StatesGo
  <2>1. CASE UNCHANGED taskState
    BY <1>1, <2>1, SameStates DEF ManualType
  <2>2. ASSUME NEW s \in Outcome, WriteState(t, s)
        PROVE  taskState' \in [Task -> State] /\ StatesGo
    <3>1. s \in State /\ s # "QUEUED"
      BY ConstantsAssumption DEF State, Terminal
    <3>2. QED
      BY <1>1, <2>2, <3>1, WriteIs
  <2>3. QED
    BY <2>1, <2>2 DEF WorkerEnds
<1>3. QED
  BY <1>2, MoveStep DEF WorkerEnds, schedVars

(* So does the read by which a worker takes its task off the record.       *)
LEMMA RemoveGetStep ==
  ASSUME ManualInv, NEW n \in Node, NEW t \in Task, RemoveGet(n, t)
  PROVE  ManualInv'
<1>1. /\ ManualType /\ UNCHANGED <<dbVars, schedVars, nodeVars>> /\ nodes[n] # None
      /\ wpc[n][t] = "remove" /\ wpc' = [wpc EXCEPT ![n][t] = "put"]
      /\ wseen' = [wseen EXCEPT ![n][t] = CopyOf(nodes[n])]
  BY DEF ManualInv, RemoveGet
<1>2. CopyOf(nodes[n]) \in Copy /\ CopyOf(nodes[n]).ids = nodes[n].ids
  <2>1. nodes[n] \in Stored
    BY <1>1 DEF ManualType
  <2>2. QED
    BY <2>1 DEF CopyOf, Copy, Stored
<1>3. /\ wpc' \in [Node -> [Task -> {"none", "work", "remove", "put", "done"}]]
      /\ \A m \in Node, u \in Task : m # n \/ u # t => wpc'[m][u] = wpc[m][u]
  BY <1>1 DEF ManualType
<1>4. /\ wseen' \in [Node -> [Task -> Copy \cup {None}]]
      /\ wseen'[n][t] = CopyOf(nodes[n])
      /\ \A m \in Node, u \in Task : m # n \/ u # t => wseen'[m][u] = wseen[m][u]
  BY <1>1, <1>2 DEF ManualType
<1>5. \A m \in Node, u \in Task : wpc'[m][u] = "put" => wseen'[m][u] \in Copy
  BY <1>1, <1>2, <1>3, <1>4 DEF ManualType
<1>6. ManualType'
  BY <1>1, <1>3, <1>4, <1>5 DEF ManualType, dbVars, schedVars, nodeVars
<1>7. \A m \in Node, u \in Task : wpc'[m][u] = "put" => Known(m, wseen'[m][u].ids)
  <2>1. Known(n, wseen'[n][t].ids)
    BY <1>1, <1>2, <1>4, KnownIs
  <2>2. \A m \in Node, u \in Task : wpc[m][u] = "put" => Known(m, wseen[m][u].ids)
    BY <1>1, KnownIs
  <2>3. QED
    BY <1>3, <1>4, <2>1, <2>2
<1>8. \A m \in Node, u \in Task : wpc'[m][u] # "none" => wpc[m][u] # "none"
  BY <1>1, <1>3
<1>9. ListsKept
  BY <1>1, <1>7, <1>8, KnownIs DEF ListsKept, dbVars, schedVars, nodeVars
<1>10. QED
  BY <1>1, <1>6, <1>9, SameNodes, SameStates, KeepStep DEF dbVars, schedVars

(* So does the write that follows it.                                      *)
LEMMA RemovePutStep ==
  ASSUME ManualInv, NEW n \in Node, NEW t \in Task, RemovePut(n, t)
  PROVE  ManualInv'
<1>1. /\ ManualType /\ UNCHANGED <<taskState, schedVars, nodeVars>>
      /\ wpc[n][t] = "put" /\ wseen' = [wseen EXCEPT ![n][t] = None]
  BY DEF ManualInv, RemovePut
<1>2. wseen[n][t] \in Copy
  BY <1>1 DEF ManualType
<1>3. \E p \in {"remove", "done"} : wpc' = [wpc EXCEPT ![n][t] = p]
  BY DEF RemovePut
<1>4. /\ wpc' \in [Node -> [Task -> {"none", "work", "remove", "put", "done"}]]
      /\ wpc'[n][t] # "put"
      /\ \A m \in Node, u \in Task : m # n \/ u # t => wpc'[m][u] = wpc[m][u]
  BY <1>1, <1>3 DEF ManualType
<1>5. /\ wseen' \in [Node -> [Task -> Copy \cup {None}]]
      /\ \A m \in Node, u \in Task : m # n \/ u # t => wseen'[m][u] = wseen[m][u]
  BY <1>1 DEF ManualType
<1>6. \A m \in Node, u \in Task : wpc'[m][u] = "put" => wpc[m][u] = "put" /\ wseen'[m][u] = wseen[m][u]
  BY <1>4, <1>5
<1>7. /\ nodes' \in [Node -> Stored \cup {None}] /\ AvailKept
      /\ \A m \in Node : nodes'[m] # None => Known(m, nodes'[m].ids)
  <2>1. CASE UNCHANGED nodes
    BY <1>1, <2>1, SameNodes, KnownIs DEF ManualType
  <2>2. CASE PutNode(n, [wseen[n][t] EXCEPT !.ids = @ \ {t}])
    <3> DEFINE rec == [wseen[n][t] EXCEPT !.ids = @ \ {t}]
    <3>1. rec \in Copy /\ rec.ids \subseteq wseen[n][t].ids
      BY <1>2 DEF Copy
    <3>2. PutNode(n, rec)
      BY <2>2
    <3> HIDE DEF rec
    <3>3. /\ nodes' \in [Node -> Stored \cup {None}] /\ nodes'[n].ids = rec.ids
          /\ \A m \in Node : m # n => nodes'[m] = nodes[m]
      BY <1>1, <3>1, <3>2, PutIs
    <3>4. AvailKept
      BY <1>1, <3>1, <3>2, PutAvail
    <3>5. Known(n, rec.ids)
      BY <1>1, <3>1, KnownIs, KnownSub
    <3>6. QED
      BY <1>1, <3>3, <3>4, <3>5, KnownIs
  <2>3. QED
    BY <2>1, <2>2 DEF RemovePut
<1>8. ManualType'
  <2>1. \A m \in Node, u \in Task : wpc'[m][u] = "put" => wseen'[m][u] \in Copy
    BY <1>1, <1>6 DEF ManualType
  <2>2. UNCHANGED <<taskState, supdated, squeue, spc, soffer, nstate, nseen>>
    BY <1>1 DEF schedVars, nodeVars
  <2>3. QED
    BY <1>1, <1>4, <1>5, <1>7, <2>1, <2>2 DEF ManualType
<1>9. \A m \in Node, u \in Task : wpc'[m][u] # "none" => wpc[m][u] # "none"
  BY <1>1, <1>4
<1>10. ListsKept
  BY <1>1, <1>6, <1>7, <1>9, KnownIs DEF ListsKept, schedVars, nodeVars
<1>11. QED
  BY <1>1, <1>7, <1>8, <1>10, SameStates, KeepStep DEF schedVars

(* Every step keeps the invariant.                                         *)
LEMMA ManualStep ==
  ASSUME ManualInv, [Next]_vars
  PROVE  ManualInv'
<1>1. ASSUME Schedule PROVE ManualInv'
  BY <1>1, ListNodesStep, CheckFailsStep, ReadQueueStep, AssignStep, MarkStep, EndTaskStep,
     DeleteStep, MarkDeadStep, GetOfferStep, NoOfferStep DEF Schedule
<1>2. ASSUME NEW n \in Node, CancelRun(n) \/ StopNode(n) \/ Signal(n) \/ Drain(n) PROVE ManualInv'
  <2>1. \E p \in NodeStates : nstate' = [nstate EXCEPT ![n] = p] \/ UNCHANGED nstate
    BY <1>2 DEF CancelRun, StopNode, Signal, Drain, NodeStates
  <2>2. UNCHANGED <<dbVars, schedVars, workVars, nseen>>
    BY <1>2 DEF CancelRun, StopNode, Signal, Drain
  <2>3. Known(n, {})
    BY <1>2, KnownIs DEF ManualInv
  <2>4. QED
    BY <2>1, <2>2, <2>3, NodeStep
<1>3. ASSUME NEW n \in Node, ExitNode(n) \/ CrashNode(n) PROVE ManualInv'
  BY <1>3, ProcessEnds DEF ExitNode, CrashNode
<1>4. ASSUME NEW n \in Node, RunNode(n) PROVE ManualInv'
  BY <1>2, <1>3, <1>4, SyncGetStep, SyncStartStep, SyncPutStep, SyncFailsStep DEF RunNode
<1>5. ASSUME NEW n \in Node, NEW t \in Task, WorkerReports(n, t) PROVE ManualInv'
  <2>1. PICK s \in {"INITIALIZING", "RUNNING"} : WriteState(t, s)
    BY <1>5 DEF WorkerReports
  <2>2. s \in State /\ s # "QUEUED"
    BY DEF State, Active
  <2>3. QED
    BY <1>5, <2>1, <2>2, StateStep DEF WorkerReports
<1>6. ASSUME NEW t \in Task, CancelTask(t) PROVE ManualInv'
  <2>1. "CANCELED" \in State
    BY DEF State, Terminal
  <2>2. QED
    BY <1>6, <2>1, StateStep DEF CancelTask
<1>7. ASSUME NEW n \in Node, NEW t \in Task, RemoveGivesUp(n, t) \/ Forget(n, t) PROVE ManualInv'
  <2>1. taskState' \in [Task -> State] /\ StatesGo
    BY <1>7, SameStates DEF ManualInv, ManualType, RemoveGivesUp, Forget, dbVars
  <2>2. QED
    BY <1>7, <2>1, MoveStep DEF RemoveGivesUp, Forget, dbVars, schedVars
<1>8. ASSUME NEW n \in Node, NEW t \in Task, RunTask(n, t) PROVE ManualInv'
  BY <1>5, <1>7, <1>8, WorkerEndsStep, RemoveGetStep, RemovePutStep DEF RunTask
<1>9. ASSUME UNCHANGED vars PROVE ManualInv'
  <2>1. UNCHANGED <<dbVars, schedVars, nodeVars, workVars>>
    BY <1>9 DEF vars, dbVars, schedVars, nodeVars, workVars
  <2>2. ManualType
    BY DEF ManualInv
  <2>3. ManualType'
    BY <2>1, <2>2 DEF ManualType, dbVars, schedVars, nodeVars, workVars
  <2>4. ListsKept
    BY <2>1, <2>2, KnownIs DEF ListsKept, dbVars, schedVars, nodeVars, workVars
  <2>5. QED
    BY <2>1, <2>3, <2>4, SameNodes, SameStates, KeepStep DEF dbVars, schedVars
<1>10. QED
  BY <1>1, <1>2, <1>3, <1>4, <1>6, <1>8, <1>9, PingStep DEF Next

(* It holds at first.                                                      *)
LEMMA ManualStart == Init => ManualInv
<1> SUFFICES ASSUME Init PROVE ManualInv
  OBVIOUS
<1> USE DEF Init, Start
<1>1. ManualType
  BY DEF ManualType, State, Active, NodeStates
<1>2. \A n \in Node, S \in SUBSET Task : Held(n, S) => S = {}
  BY DEF Held
<1>3. \A n \in Node, t \in Task : ~Touch(n, t)
  BY <1>2 DEF Touch, Known
<1>4. FitInv
  <2>1. Fits({}, taskState)
    <3>1. Used({}, taskState) = SumOf({})
      BY DEF Used
    <3>2. SumOf({}) = 0
      BY SumWorks DEF Summed
    <3>3. QED
      BY <3>1, <3>2, ConstantsAssumption DEF Fits
  <2>2. QED
    BY <1>2, <2>1 DEF FitInv
<1>5. AvailInv /\ QueueInv /\ OneInv
  BY <1>3 DEF AvailInv, QueueInv, OneInv
<1>6. QED
  BY <1>1, <1>4, <1>5 DEF ManualInv

(* No task has a worker on two nodes, whatever dies, times out or writes   *)
(* back an old record: OneNodePerTask, for any number of nodes, tasks and  *)
(* failures (Schedule, sync, runTask).                                     *)
THEOREM NodesCorrect == Spec => []OneNodePerTask
<1>1. ManualInv => OneNodePerTask
  BY DEF ManualInv, OneInv, Touch, OneNodePerTask
<1>2. QED
  BY <1>1, ManualStart, ManualStep, PTL DEF Spec

(* The unfinished tasks of a stored node record never ask for more than    *)
(* the node has, though offers are made from records read earlier:         *)
(* NeverOvercommitted, for any requests and any capacity (getOffer,        *)
(* PutNode, AvailableResources).                                           *)
THEOREM CapacityCorrect == Spec => []NeverOvercommitted
<1>1. ManualInv => NeverOvercommitted
  <2> SUFFICES ASSUME ManualInv, NEW n \in Node, nodes[n] # None
               PROVE  MapThenSumSet(LAMBDA t : Request[t],
                        {t \in nodes[n].ids : ~TerminalState(taskState[t])}) <= Capacity
    BY DEF NeverOvercommitted
  <2>1. nodes[n].ids \in SUBSET Task
    BY DEF ManualInv, ManualType, Stored
  <2>2. Held(n, nodes[n].ids)
    BY DEF Held
  <2>3. Fits(nodes[n].ids, taskState)
    BY <2>1, <2>2 DEF ManualInv, FitInv
  <2>4. QED
    BY <2>3 DEF Fits, Used, SumOf
<1>2. QED
  BY <1>1, ManualStart, ManualStep, PTL DEF Spec
=============================================================================

---------------------------- MODULE ServerProofs ----------------------------
(***************************************************************************)
(* Proofs about the server and the jobs it starts.  ServerStart, for any   *)
(* number of servers, calls and outages: a stop keeps the calls it waits   *)
(* for, and a server that serves finds what Init is to make.  TaskListing, *)
(* for any number of tasks and any page size: the pages of a listing.      *)
(* AWSBatchSetup, for any number of operators and of failed requests: the  *)
(* set-up commands of AWS Batch.  BatchBackends, for any number of tasks:  *)
(* the verdicts of the reconcilers.  ExecutorPod, for any number of lost   *)
(* watches: the job and the pod of KubernetesCommand.                      *)
(***************************************************************************)
EXTENDS ServerStart, TaskListing, BatchBackends, AWSBatchSetup, ExecutorPod, TLAPS

(* The provers to try on a step in turn, with the seconds each may take.   *)
USE ZenonT(5), SMTT(20), ZenonT(20), SMTT(40), SMTT(60)

(* The types of the variables that the argument reads.                     *)
ServeType ==
  /\ phase \in [Servers -> {"down", "open", "look", "make", "create",
                            "serving", "stopping", "failing"}]
  /\ call \in [Servers -> {"none", "rpc", "http"}]
  /\ cut \in [Servers -> {"none", "rpc", "http"}]

(* Calls are answered while a server serves or waits for them to end; one  *)
(* that lost its HTTP port has none.                                       *)
CallsWhileServing ==
  \A s \in Servers : phase[s] \notin {"serving", "stopping"} => call[s] = Nobody

(* The inductive invariant.                                                *)
ServeInv == ServeType /\ CallsWhileServing /\ StopKeepsCalls

(* A process that ends cuts off an RPC call only if it has one, and runs   *)
(* the scheduler if it does.                                               *)
LEMMA ExitStep ==
  ASSUME ServeInv, NEW s \in Servers, Exit(s),
         call[s] = "rpc" => conf.compute = "manual"
  PROVE  ServeInv'
<1>1. ServeType'
  BY DEF ServeInv, ServeType, Exit, Nobody
<1>2. CallsWhileServing'
  BY DEF ServeInv, ServeType, CallsWhileServing, Exit
<1>3. StopKeepsCalls'
  BY DEF ServeInv, ServeType, StopKeepsCalls, Exit
<1>4. QED
  BY <1>1, <1>2, <1>3 DEF ServeInv

(* NewServer goes on to another of its phases, without a call.             *)
LEMMA GotoStep ==
  ASSUME ServeInv, NEW s \in Servers, phase[s] \notin {"serving", "stopping"},
         NEW p \in {"open", "look", "make", "create", "serving"},
         Goto(s, p), UNCHANGED <<conf, call>>,
         UNCHANGED cut \/ cut' = [cut EXCEPT ![s] = Nobody]
  PROVE  ServeInv'
<1>1. ServeType'
  BY DEF ServeInv, ServeType, Goto, Nobody
<1>2. CallsWhileServing'
  BY DEF ServeInv, ServeType, CallsWhileServing, Goto
<1>3. StopKeepsCalls'
  BY DEF ServeInv, ServeType, StopKeepsCalls, Nobody
<1>4. QED
  BY <1>1, <1>2, <1>3 DEF ServeInv

(* A try of Init fails: another one, or the end of the process.            *)
LEMMA InitFailsStep ==
  ASSUME ServeInv, NEW s \in Servers, phase[s] \in {"look", "make", "create"}, InitFails(s)
  PROVE  ServeInv'
<1>1. call[s] = Nobody
  BY DEF ServeInv, CallsWhileServing
<1>2. CASE Exit(s)
  BY <1>1, <1>2, ExitStep DEF Nobody
<1>3. CASE Goto(s, "look") /\ UNCHANGED <<conf, call, cut>>
  BY <1>3, GotoStep
<1>4. QED
  BY <1>2, <1>3 DEF InitFails

(* The steps of NewServer.                                                 *)
LEMMA NewServerStep ==
  ASSUME ServeInv, NEW s \in Servers,
         \/ StartServer(s) \/ OpenDatabase(s) \/ LookFirst(s) \/ Check(s)
         \/ CreateTable(s) \/ Assemble(s) \/ CallFails(s)
  PROVE  ServeInv'
<1>1. CASE StartServer(s)
  BY <1>1, GotoStep DEF StartServer
<1>2. CASE OpenDatabase(s)
  <2>1. phase[s] = "open" /\ call[s] = Nobody
    BY <1>2 DEF OpenDatabase, ServeInv, CallsWhileServing
  <2>2. Exit(s) \/ (Goto(s, "look") /\ UNCHANGED <<conf, call, cut>>)
    BY <1>2 DEF OpenDatabase
  <2>3. QED
    BY <2>1, <2>2, ExitStep, GotoStep DEF Nobody
<1>3. CASE LookFirst(s)
  BY <1>3, GotoStep DEF LookFirst
<1>4. CASE Check(s)
  <2>1. CASE UNCHANGED phase
    BY <1>4, <2>1 DEF Check, ServeInv, ServeType, CallsWhileServing, StopKeepsCalls
  <2>2. CASE Goto(s, "create")
    BY <1>4, <2>2, GotoStep DEF Check
  <2>3. QED
    BY <1>4, <2>1, <2>2 DEF Check
<1>5. CASE CreateTable(s)
  <2>1. phase[s] \in {"make", "create"}
    BY <1>5 DEF CreateTable
  <2>2. InitFails(s) \/ (Goto(s, "make") /\ UNCHANGED <<conf, call, cut>>)
    BY <1>5 DEF CreateTable
  <2>3. QED
    BY <2>1, <2>2, InitFailsStep, GotoStep
<1>6. CASE Assemble(s)
  <2>1. phase[s] = "make" /\ call[s] = Nobody
    BY <1>6 DEF Assemble, InitReturns, MadeAll, ServeInv, CallsWhileServing
  <2>2. Exit(s) \/ (Goto(s, "serving") /\ UNCHANGED <<conf, call, cut>>)
    BY <1>6 DEF Assemble
  <2>3. QED
    BY <2>1, <2>2, ExitStep, GotoStep DEF Nobody
<1>7. CASE CallFails(s)
  BY <1>7, InitFailsStep DEF CallFails
<1>8. QED
  BY <1>1, <1>2, <1>3, <1>4, <1>5, <1>6, <1>7

(* The steps of Serve, the signal, and the end.                            *)
LEMMA ServeStep ==
  ASSUME ServeInv, NEW s \in Servers,
         \/ Answer(s) \/ Answered(s) \/ Interrupt(s) \/ CloseGateway(s)
         \/ HTTPPortTaken(s) \/ RPCPortTaken(s) \/ Crash(s)
         \/ ServeReturns(s) \/ SchedulerReturns(s)
  PROVE  ServeInv'
<1> USE DEF ServeInv, ServeType, CallsWhileServing, StopKeepsCalls, Nobody
<1>1. CASE Answer(s)
  BY <1>1 DEF Answer
<1>2. CASE Answered(s)
  BY <1>2 DEF Answered
<1>3. CASE Interrupt(s)
  BY <1>3 DEF Interrupt, Goto
<1>4. CASE CloseGateway(s)
  BY <1>4 DEF CloseGateway
<1>5. CASE HTTPPortTaken(s)
  BY <1>5 DEF HTTPPortTaken, Goto
<1>6. CASE RPCPortTaken(s)
  BY <1>6, ExitStep DEF RPCPortTaken
<1>7. CASE Crash(s)
  BY <1>7 DEF Crash
<1>8. CASE ServeReturns(s)
  BY <1>8, ExitStep DEF ServeReturns, Drained
<1>9. CASE SchedulerReturns(s)
  BY <1>9, ExitStep DEF SchedulerReturns
<1>10. QED
  BY <1>1, <1>2, <1>3, <1>4, <1>5, <1>6, <1>7, <1>8, <1>9

(* Whatever fails at the start, whichever port is taken and whenever the   *)
(* signal comes, the end of a server cuts off no call to its RPC port,     *)
(* unless it runs the scheduler (Serve's GracefulStop, and Run of          *)
(* cmd/server).                                                            *)
THEOREM StopCorrect == StartSpec => []StopKeepsCalls
<1>1. StartInit => ServeInv
  BY DEF StartInit, Fresh, ServeInv, ServeType, CallsWhileServing, StopKeepsCalls, Nobody
<1>2. ServeInv /\ [StartNext]_startVars => ServeInv'
  <2>1. ASSUME ServeInv, UNCHANGED startVars \/ TableReady PROVE ServeInv'
    BY <2>1 DEF startVars, TableReady, ServeInv, ServeType, CallsWhileServing, StopKeepsCalls
  <2>2. QED
    BY <2>1, NewServerStep, ServeStep DEF StartNext, Progress
<1>3. ServeInv => StopKeepsCalls
  BY DEF ServeInv
<1>4. QED
  BY <1>1, <1>2, <1>3, PTL DEF StartSpec

-----------------------------------------------------------------------------
(* What Init has made when a server serves.                                *)

(* Where a server is between its start and its end.                        *)
Phases == {"down", "open", "look", "make", "create", "serving", "stopping", "failing"}

(* The values of the variables that the argument reads.                    *)
MakeType ==
  /\ conf \in [database : Databases, compute : {"manual", "noop"}]
  /\ phase \in [Servers -> Phases]
  /\ next \in [Servers -> Nat \ {0}]
  /\ found = [s \in Servers |-> found[s]]

(* The collection that an index belongs to is made.                        *)
OwnerMade(o) ==
  (o = "tasks index" /\ "tasks" \in made) \/ (o = "nodes index" /\ "nodes" \in made)

(* An object is made, or is an index of MongoDB whose collection is.       *)
Settled(o) == o \in made \/ (conf.database = "mongodb" /\ OwnerMade(o))

(* What a server found is settled; MongoDB's check finds an index exactly  *)
(* with its collection.                                                    *)
FoundInv(s) ==
  /\ \A o \in found[s] : Settled(o)
  /\ conf.database = "mongodb" => ("tasks index" \in found[s] <=> "tasks" \in found[s])
  /\ conf.database = "mongodb" => ("nodes index" \in found[s] <=> "nodes" \in found[s])

(* Init has settled all objects before the next one, which it did not      *)
(* find.                                                                   *)
PassedInv(s) ==
  phase[s] \in {"make", "create"} =>
    /\ \A k \in 1..Len(Wanted) : k < next[s] => Settled(Wanted[k])
    /\ next[s] <= Len(Wanted) => Wanted[next[s]] \notin found[s]

(* A server that serves has settled all objects, and with DynamoDB they    *)
(* are active.                                                             *)
ServedInv(s) ==
  phase[s] \in {"serving", "stopping", "failing"} =>
    /\ \A k \in 1..Len(Wanted) : Settled(Wanted[k])
    /\ conf.database = "dynamodb" => Range(Wanted) \subseteq active

(* The server is about to make this object.                                *)
AboutTo(s, o) == phase[s] = "make" /\ next[s] <= Len(Wanted) /\ Wanted[next[s]] = o

(* An index of MongoDB whose collection is made is made as well, on its    *)
(* way, or given up.                                                       *)
IndexInv ==
  conf.database = "mongodb" =>
    \A o \in Index : OwnerMade(o) =>
      o \in made \/ o \in torn \/ \E s \in Servers : AboutTo(s, o)

(* The inductive invariant.                                                *)
MadeInv ==
  /\ MakeType
  /\ \A s \in Servers : FoundInv(s) /\ PassedInv(s) /\ ServedInv(s)
  /\ IndexInv

(* A nonempty set of naturals has a least element.                         *)
LEMMA Smallest ==
  ASSUME NEW S \in SUBSET (1..6), S # {}
  PROVE  \E k \in S : \A j \in S : k <= j
<1>1. \A j \in S : j = 1 \/ j = 2 \/ j = 3 \/ j = 4 \/ j = 5 \/ j = 6
  OBVIOUS
<1>2. CASE 1 \in S
  BY <1>1, <1>2
<1>3. CASE 1 \notin S /\ 2 \in S
  BY <1>1, <1>3
<1>4. CASE 1 \notin S /\ 2 \notin S /\ 3 \in S
  BY <1>1, <1>4
<1>5. CASE 1 \notin S /\ 2 \notin S /\ 3 \notin S /\ 4 \in S
  BY <1>1, <1>5
<1>6. CASE 1 \notin S /\ 2 \notin S /\ 3 \notin S /\ 4 \notin S /\ 5 \in S
  BY <1>1, <1>6
<1>7. CASE S = {6}
  BY <1>7
<1>8. QED
  BY <1>1, <1>2, <1>3, <1>4, <1>5, <1>6, <1>7

(* The objects that Init makes, in order.                                  *)
LEMMA WantedIs ==
  ASSUME MakeType
  PROVE  /\ Len(Wanted) \in Nat /\ Len(Wanted) <= 6 /\ DOMAIN Wanted = 1..Len(Wanted)
         /\ conf.database = "mongodb" =>
              Wanted = <<"tasks", "tasks index", "nodes", "nodes index">> /\ Len(Wanted) = 4
<1>1. conf.database \in Databases
  BY DEF MakeType
<1>2. /\ Objects["boltdb"] = <<"buckets">>
      /\ Objects["badger"] = << >>
      /\ Objects["datastore"] = << >>
      /\ Objects["dynamodb"] = <<"task", "content", "stdout", "stderr", "syslogs">>
      /\ Objects["elastic"] = <<"tasks", "nodes">>
      /\ Objects["mongodb"] = <<"tasks", "tasks index", "nodes", "nodes index">>
      /\ Objects["postgres"] = <<"role", "database", "grant", "tasks", "nodes", "indices">>
  BY DEF Objects
<1>3. /\ Len(Objects["boltdb"]) = 1
      /\ Len(Objects["badger"]) = 0
      /\ Len(Objects["datastore"]) = 0
      /\ Len(Objects["dynamodb"]) = 5
      /\ Len(Objects["elastic"]) = 2
      /\ Len(Objects["mongodb"]) = 4
      /\ Len(Objects["postgres"]) = 6
  BY DEF Objects
<1>4. /\ DOMAIN Objects["boltdb"] = 1..1
      /\ DOMAIN Objects["badger"] = 1..0
      /\ DOMAIN Objects["datastore"] = 1..0
      /\ DOMAIN Objects["dynamodb"] = 1..5
      /\ DOMAIN Objects["elastic"] = 1..2
      /\ DOMAIN Objects["mongodb"] = 1..4
      /\ DOMAIN Objects["postgres"] = 1..6
  BY DEF Objects
<1> DEFINE Short(d) == Len(Objects[d]) \in Nat /\ Len(Objects[d]) <= 6 /\ DOMAIN Objects[d] = 1..Len(Objects[d])
<1>5. \A d \in Databases : Short(d)
  <2>1. Short("boltdb") /\ Short("badger") /\ Short("datastore") /\ Short("dynamodb")
    BY <1>3, <1>4
  <2>2. Short("elastic") /\ Short("mongodb") /\ Short("postgres")
    BY <1>3, <1>4
  <2> HIDE DEF Short
  <2>3. QED
    BY <2>1, <2>2 DEF Databases
<1>6. QED
  BY <1>1, <1>2, <1>3, <1>5 DEF Wanted

(* The next object that Init makes is the first one from i on that was not *)
(* found.                                                                  *)
LEMMA SkipIs ==
  ASSUME MakeType, NEW seen, NEW i \in Nat \ {0}
  PROVE  /\ Skip(seen, i) \in Nat \ {0}
         /\ Skip(seen, i) <= Len(Wanted) => Wanted[Skip(seen, i)] \notin seen
         /\ \A k \in i..Len(Wanted) : k < Skip(seen, i) => Wanted[k] \in seen
         /\ i \in 1..Len(Wanted) /\ Wanted[i] \notin seen => Skip(seen, i) = i
<1> DEFINE missing == {k \in i..Len(Wanted) : Wanted[k] \notin seen}
<1>1. Len(Wanted) \in Nat /\ Len(Wanted) <= 6
  BY WantedIs
<1>2. missing \in SUBSET (1..6)
  BY <1>1
<1>3. CASE missing = {}
  <2>1. Skip(seen, i) = Len(Wanted) + 1
    BY <1>3 DEF Skip
  <2>2. QED
    BY <1>1, <1>3, <2>1
<1>4. CASE missing # {}
  <2>1. \E k \in missing : \A j \in missing : k <= j
    <3> HIDE DEF missing
    <3> QED BY <1>2, <1>4, Smallest
  <2>2. Skip(seen, i) \in missing /\ \A j \in missing : Skip(seen, i) <= j
    BY <1>4, <2>1 DEF Skip
  <2>3. QED
    BY <1>1, <2>2
<1>5. QED
  BY <1>3, <1>4

(* The state of the servers s does not move is kept when what is there only grows *)
LEMMA Grows ==
  ASSUME MadeInv, conf' = conf, made \subseteq made', active \subseteq active',
         NEW t \in Servers, phase'[t] = phase[t], next'[t] = next[t], found'[t] = found[t]
  PROVE  FoundInv(t)' /\ PassedInv(t)' /\ ServedInv(t)'
<1>1. Wanted' = Wanted
  BY DEF Wanted
<1>2. \A o : Settled(o) => Settled(o)'
  BY DEF Settled, OwnerMade
<1>3. FoundInv(t)'
  BY <1>2 DEF MadeInv, FoundInv
<1>4. PassedInv(t)'
  BY <1>1, <1>2 DEF MadeInv, PassedInv
<1>5. ServedInv(t)'
  BY <1>1, <1>2 DEF MadeInv, ServedInv
<1>6. QED
  BY <1>3, <1>4, <1>5

(* Nothing was made and no server left an index behind *)
LEMMA IndexKept ==
  ASSUME MadeInv, UNCHANGED <<conf, made>>, torn \subseteq torn',
         NEW s \in Servers,
         \A t \in Servers : t # s => phase'[t] = phase[t] /\ next'[t] = next[t],
         conf.database = "mongodb" => (\A o \in Index : AboutTo(s, o) => o \in torn' \/ AboutTo(s, o)')
  PROVE  IndexInv'
<1>1. Wanted' = Wanted
  BY DEF Wanted
<1>2. \A t \in Servers, o \in Index : AboutTo(t, o) /\ t # s => AboutTo(t, o)'
  BY <1>1 DEF AboutTo
<1>3. QED
  BY <1>2 DEF MadeInv, IndexInv, OwnerMade

(* A step that leaves Init and what it made alone keeps the invariant.     *)
LEMMA QuietStep ==
  ASSUME MadeInv, UNCHANGED <<conf, made, phase, next, found, torn>>, active \subseteq active'
  PROVE  MadeInv'
<1>1. MakeType'
  BY DEF MadeInv, MakeType
<1>2. \A t \in Servers : FoundInv(t)' /\ PassedInv(t)' /\ ServedInv(t)'
  BY Grows
<1>3. IndexInv'
  <2>1. \A t \in Servers, o \in Index : AboutTo(t, o) => AboutTo(t, o)'
    BY DEF AboutTo, Wanted
  <2>2. QED
    BY <2>1 DEF MadeInv, IndexInv, OwnerMade
<1>4. QED
  BY <1>1, <1>2, <1>3 DEF MadeInv

(* A server moves outside of Init. *)
LEMMA GotoMade ==
  ASSUME MadeInv, NEW s \in Servers, NEW p \in Phases \ {"make", "create"}, Goto(s, p),
         UNCHANGED <<conf, made, active, next, found, torn>>,
         phase[s] = "make" => conf.database # "mongodb",
         p \in {"serving", "stopping", "failing"} => phase[s] \in {"serving", "stopping", "failing"}
  PROVE  MadeInv'
<1>1. MakeType'
  BY DEF MadeInv, MakeType, Goto
<1>2. \A t \in Servers : t # s => phase'[t] = phase[t] /\ next'[t] = next[t] /\ found'[t] = found[t]
  BY DEF MadeInv, MakeType, Goto
<1>3. phase'[s] = p /\ found'[s] = found[s]
  BY DEF MadeInv, MakeType, Goto
<1>4. Wanted' = Wanted /\ \A o : Settled(o) => Settled(o)'
  BY DEF Wanted, Settled, OwnerMade
<1>5. FoundInv(s)' /\ PassedInv(s)'
  BY <1>3, <1>4 DEF MadeInv, FoundInv, PassedInv
<1>6. ServedInv(s)'
  BY <1>3, <1>4 DEF MadeInv, ServedInv
<1>7. \A t \in Servers : FoundInv(t)' /\ PassedInv(t)' /\ ServedInv(t)'
  <2> SUFFICES ASSUME NEW t \in Servers PROVE FoundInv(t)' /\ PassedInv(t)' /\ ServedInv(t)'
    OBVIOUS
  <2>1. CASE t = s
    BY <2>1, <1>5, <1>6
  <2>2. CASE t # s
    BY <2>2, <1>2, Grows
  <2>3. QED
    BY <2>1, <2>2
<1>8. IndexInv'
  <2>1. conf.database = "mongodb" => (\A o \in Index : AboutTo(s, o) => o \in torn' \/ AboutTo(s, o)')
    BY DEF AboutTo
  <2>2. QED
    BY <2>1, <1>2, IndexKept
<1>9. QED
  BY <1>1, <1>7, <1>8 DEF MadeInv

(* A server that leaves Init, by serving or by failing, keeps it.          *)
LEMMA ForgetStep ==
  ASSUME MadeInv, NEW s \in Servers, NEW p \in Phases \ {"make", "create"},
         phase' = [phase EXCEPT ![s] = p], ForgetAll(s), UNCHANGED <<conf, made, active>>,
         torn \subseteq torn',
         conf.database = "mongodb" => (\A o \in Index : AboutTo(s, o) => o \in torn'),
         p \in {"serving", "stopping", "failing"} =>
           /\ \A k \in 1..Len(Wanted) : Settled(Wanted[k])
           /\ conf.database = "dynamodb" => Range(Wanted) \subseteq active
  PROVE  MadeInv'
<1>1. MakeType'
  <2>1. found' = [t \in Servers |-> found'[t]]
    BY DEF MadeInv, MakeType, ForgetAll
  <2>2. /\ conf' \in [database : Databases, compute : {"manual", "noop"}]
        /\ phase' \in [Servers -> Phases]
        /\ next' \in [Servers -> Nat \ {0}]
    BY DEF MadeInv, MakeType, ForgetAll
  <2>3. QED
    BY <2>1, <2>2 DEF MakeType
<1>2. \A t \in Servers : t # s => phase'[t] = phase[t] /\ next'[t] = next[t] /\ found'[t] = found[t]
  BY DEF MadeInv, MakeType, ForgetAll
<1>3. phase'[s] = p /\ found'[s] = {}
  BY DEF MadeInv, MakeType, ForgetAll
<1>4. Wanted' = Wanted /\ \A o : Settled(o) => Settled(o)'
  BY DEF Wanted, Settled, OwnerMade
<1>5. FoundInv(s)' /\ PassedInv(s)'
  BY <1>3, <1>4 DEF MadeInv, FoundInv, PassedInv
<1>6. ServedInv(s)'
  BY <1>3, <1>4 DEF MadeInv, ServedInv
<1>7. \A t \in Servers : FoundInv(t)' /\ PassedInv(t)' /\ ServedInv(t)'
  <2> SUFFICES ASSUME NEW t \in Servers PROVE FoundInv(t)' /\ PassedInv(t)' /\ ServedInv(t)'
    OBVIOUS
  <2>1. CASE t = s
    BY <2>1, <1>5, <1>6
  <2>2. CASE t # s
    BY <2>2, <1>2, Grows
  <2>3. QED
    BY <2>1, <2>2
<1>8. IndexInv'
  BY <1>2, IndexKept
<1>9. QED
  BY <1>1, <1>7, <1>8 DEF MadeInv

(* An index that a server which goes away was about to make is given up.   *)
LEMMA TornTaken ==
  ASSUME MadeInv, NEW s \in Servers, torn' = torn \cup TornBy(s), NEW o \in Index, AboutTo(s, o)
  PROVE  o \in torn'
BY DEF AboutTo, TornBy

(* The end of a server keeps the invariant.                                *)
LEMMA ExitMade ==
  ASSUME MadeInv, NEW s \in Servers, Exit(s)
  PROVE  MadeInv'
<1>1. torn' = torn \cup TornBy(s)
  BY DEF Exit
<1>2. \A o \in Index : AboutTo(s, o) => o \in torn'
  BY <1>1, TornTaken
<1>3. phase' = [phase EXCEPT ![s] = "down"] /\ ForgetAll(s) /\ UNCHANGED <<conf, made, active>>
  BY DEF Exit
<1>4. QED
  BY <1>1, <1>2, <1>3, ForgetStep DEF Phases

(* So does a failure of Init.                                              *)
LEMMA InitFailsMade ==
  ASSUME MadeInv, NEW s \in Servers, phase[s] \in {"look", "make", "create"}, InitFails(s)
  PROVE  MadeInv'
<1>1. CASE Exit(s)
  BY <1>1, ExitMade
<1>2. CASE conf.database = "postgres" /\ Goto(s, "look") /\ UNCHANGED <<conf, made, active, next, found, torn>>
  BY <1>2, GotoMade DEF Phases
<1>3. QED
  BY <1>1, <1>2 DEF InitFails

(* So does the look at what exists.                                        *)
LEMMA LookMade ==
  ASSUME MadeInv, NEW s \in Servers, LookFirst(s)
  PROVE  MadeInv'
<1>1. MakeType /\ FoundInv(s) /\ phase[s] = "look"
  BY DEF MadeInv, LookFirst
<1>2. /\ \A o \in Lookup : Settled(o)
      /\ conf.database = "mongodb" => ("tasks index" \in Lookup <=> "tasks" \in Lookup)
      /\ conf.database = "mongodb" => ("nodes index" \in Lookup <=> "nodes" \in Lookup)
  <2>1. CASE conf.database = "mongodb"
    BY <2>1 DEF Lookup, Collections, Index, Settled, OwnerMade
  <2>2. CASE conf.database = "postgres"
    BY <2>2 DEF Lookup, Probed, Admin, Settled
  <2>3. CASE conf.database \notin {"mongodb", "postgres", "boltdb"}
    BY <2>3 DEF Lookup
  <2>4. CASE conf.database = "boltdb"
    BY <2>4 DEF Lookup, Settled
  <2>5. QED
    BY <2>1, <2>2, <2>3, <2>4
<1>3. /\ Skip(Lookup, 1) \in Nat \ {0}
      /\ Skip(Lookup, 1) <= Len(Wanted) => Wanted[Skip(Lookup, 1)] \notin Lookup
      /\ \A k \in 1..Len(Wanted) : k < Skip(Lookup, 1) => Wanted[k] \in Lookup
  BY <1>1, SkipIs
<1>4. /\ phase' = [phase EXCEPT ![s] = "make"]
      /\ next' = [next EXCEPT ![s] = Skip(Lookup, 1)]
      /\ found' = [found EXCEPT ![s] = Lookup]
      /\ UNCHANGED <<conf, made, active, torn>>
  BY DEF LookFirst, Goto
<1>5. MakeType'
  BY <1>1, <1>2, <1>3, <1>4 DEF MakeType, Phases
<1>6. \A t \in Servers : t # s => phase'[t] = phase[t] /\ next'[t] = next[t] /\ found'[t] = found[t]
  BY <1>1, <1>4 DEF MakeType
<1>7. phase'[s] = "make" /\ found'[s] = Lookup /\ next'[s] = Skip(Lookup, 1)
  BY <1>1, <1>4 DEF MakeType
<1>8. Wanted' = Wanted /\ \A o : Settled(o) => Settled(o)'
  BY <1>4 DEF Wanted, Settled, OwnerMade
<1>9. FoundInv(s)' /\ PassedInv(s)' /\ ServedInv(s)'
  <2>1. FoundInv(s)'
    BY <1>2, <1>4, <1>7, <1>8 DEF FoundInv
  <2>2. PassedInv(s)'
    BY <1>2, <1>3, <1>7, <1>8 DEF PassedInv
  <2>3. ServedInv(s)'
    BY <1>7 DEF ServedInv
  <2>4. QED
    BY <2>1, <2>2, <2>3
<1>10. \A t \in Servers : FoundInv(t)' /\ PassedInv(t)' /\ ServedInv(t)'
  <2> SUFFICES ASSUME NEW t \in Servers PROVE FoundInv(t)' /\ PassedInv(t)' /\ ServedInv(t)'
    OBVIOUS
  <2>1. CASE t = s
    BY <2>1, <1>9
  <2>2. CASE t # s
    BY <2>2, <1>4, <1>6, Grows
  <2>3. QED
    BY <2>1, <2>2
<1>11. IndexInv'
  <2>1. \A o \in Index : ~AboutTo(s, o)
    BY <1>1 DEF AboutTo
  <2>2. QED
    BY <2>1, <1>4, <1>6, IndexKept
<1>12. QED
  BY <1>5, <1>10, <1>11 DEF MadeInv

(* Having made an object, Init goes on to the next.                        *)
LEMMA NextMade ==
  ASSUME MadeInv, NEW s \in Servers, phase[s] \in {"make", "create"}, next[s] <= Len(Wanted),
         phase' = [phase EXCEPT ![s] = "make"],
         next' = [next EXCEPT ![s] = Skip(found[s], @ + 1)],
         UNCHANGED <<conf, found, active, torn>>,
         made' = made \cup {Wanted[next[s]]},
         conf.database = "mongodb" /\ Wanted[next[s]] \notin Index => Wanted[next[s]] \notin made
  PROVE  MadeInv'
<1>a. PICK i : i = next[s]
  OBVIOUS
<1>b. PICK j : j = Skip(found[s], i + 1)
  OBVIOUS
<1>1. MakeType /\ FoundInv(s) /\ PassedInv(s) /\ IndexInv
  BY DEF MadeInv
<1>2. i \in Nat \ {0} /\ Len(Wanted) \in Nat /\ i \in 1..Len(Wanted)
  <2>1. next[s] \in Nat \ {0} /\ Len(Wanted) \in Nat
    BY <1>1, WantedIs DEF MakeType
  <2>2. QED
    BY <1>a, <2>1
<1>3. /\ j \in Nat \ {0}
      /\ j <= Len(Wanted) => Wanted[j] \notin found[s]
      /\ \A k \in (i + 1)..Len(Wanted) : k < j => Wanted[k] \in found[s]
      /\ i + 1 \in 1..Len(Wanted) /\ Wanted[i + 1] \notin found[s] => j = i + 1
  <2>1. i + 1 \in Nat \ {0}
    BY <1>2
  <2>2. QED
    BY <1>1, <1>b, <2>1, SkipIs
<1>4. phase'[s] = "make" /\ next'[s] = j /\ found'[s] = found[s]
  BY <1>1, <1>a, <1>b DEF MakeType
<1>5. \A t \in Servers : t # s => phase'[t] = phase[t] /\ next'[t] = next[t] /\ found'[t] = found[t]
  BY <1>1 DEF MakeType
<1>6. MakeType'
  <2>1. found' = [t \in Servers |-> found'[t]]
    BY <1>1 DEF MakeType
  <2>2. /\ conf' \in [database : Databases, compute : {"manual", "noop"}]
        /\ phase' \in [Servers -> Phases]
        /\ next' \in [Servers -> Nat \ {0}]
    BY <1>1, <1>3, <1>a, <1>b DEF MakeType, Phases
  <2>3. QED
    BY <2>1, <2>2 DEF MakeType
<1>7. Wanted' = Wanted /\ (\A o : Settled(o) => Settled(o)') /\ Settled(Wanted[i])'
  BY <1>a DEF Wanted, Settled, OwnerMade
<1>8. FoundInv(s)' /\ ServedInv(s)'
  <2>1. FoundInv(s)'
    BY <1>1, <1>4, <1>7 DEF FoundInv
  <2>2. ServedInv(s)'
    BY <1>4 DEF ServedInv
  <2>3. QED
    BY <2>1, <2>2
<1>9. PassedInv(s)'
  <2>1. \A k \in 1..Len(Wanted) : k < j => Settled(Wanted[k])'
    <3> SUFFICES ASSUME NEW k \in 1..Len(Wanted), k < j PROVE Settled(Wanted[k])'
      OBVIOUS
    <3>1. CASE k < i
      <4>1. Settled(Wanted[k])
        BY <3>1, <1>1, <1>a DEF PassedInv
      <4>2. QED
        BY <4>1, <1>7
    <3>2. CASE k = i
      BY <3>2, <1>7
    <3>3. CASE k > i
      <4>1. Wanted[k] \in found[s]
        BY <3>3, <1>2, <1>3
      <4>2. QED
        BY <4>1, <1>1, <1>7 DEF FoundInv
    <3>4. QED
      BY <3>1, <3>2, <3>3, <1>2
  <2>2. QED
    BY <2>1, <1>3, <1>4, <1>7 DEF PassedInv
<1>10. \A t \in Servers : FoundInv(t)' /\ PassedInv(t)' /\ ServedInv(t)'
  <2> SUFFICES ASSUME NEW t \in Servers PROVE FoundInv(t)' /\ PassedInv(t)' /\ ServedInv(t)'
    OBVIOUS
  <2>1. CASE t = s
    BY <2>1, <1>8, <1>9
  <2>2. CASE t # s
    BY <2>2, <1>5, Grows
  <2>3. QED
    BY <2>1, <2>2
<1>11. IndexInv'
  <2> SUFFICES ASSUME conf.database = "mongodb", NEW o \in Index, OwnerMade(o)',
                      o \notin made', o \notin torn'
               PROVE  \E t \in Servers : AboutTo(t, o)'
    BY DEF IndexInv
  <2>1. Wanted = <<"tasks", "tasks index", "nodes", "nodes index">> /\ Len(Wanted) = 4
    BY <1>1, WantedIs
  <2>2. o # Wanted[i]
    BY <1>a
  <2>3. CASE OwnerMade(o)
    <3>1. PICK t \in Servers : AboutTo(t, o)
      BY <2>3, <1>1 DEF IndexInv
    <3>2. t # s
      BY <2>2, <3>1, <1>a DEF AboutTo
    <3>3. QED
      BY <3>1, <3>2, <1>5, <1>7 DEF AboutTo
  <2>4. CASE ~OwnerMade(o)
    <3>1. \/ o = "tasks index" /\ Wanted[i] = "tasks"
          \/ o = "nodes index" /\ Wanted[i] = "nodes"
      BY <2>4, <1>a DEF OwnerMade
    <3>2. i + 1 \in 1..Len(Wanted) /\ Wanted[i + 1] = o
      <4>0. Len(Wanted) = 4
        BY <2>1
      <4>1. i = 1 \/ i = 2 \/ i = 3 \/ i = 4
        BY <1>2, <4>0
      <4>2. /\ Wanted[1] = "tasks" /\ Wanted[2] = "tasks index"
            /\ Wanted[3] = "nodes" /\ Wanted[4] = "nodes index"
        BY <2>1
      <4>3. CASE i = 1
        <5>1. o = "tasks index"
          BY <4>3, <4>2, <3>1
        <5>2. i + 1 = 2
          BY <4>3
        <5>3. i + 1 \in 1..Len(Wanted)
          BY <5>2, <4>0
        <5>4. Wanted[i + 1] = o
          BY <5>1, <5>2, <4>2
        <5>5. QED
          BY <5>3, <5>4
      <4>4. CASE i = 3
        <5>1. o = "nodes index"
          BY <4>4, <4>2, <3>1
        <5>2. i + 1 = 4
          BY <4>4
        <5>3. i + 1 \in 1..Len(Wanted)
          BY <5>2, <4>0
        <5>4. Wanted[i + 1] = o
          BY <5>1, <5>2, <4>2
        <5>5. QED
          BY <5>3, <5>4
      <4>5. i # 2 /\ i # 4
        BY <4>2, <3>1
      <4>6. QED
        BY <4>1, <4>3, <4>4, <4>5
    <3>3. Wanted[i] \notin made
      BY <3>1, <1>a DEF Index
    <3>4. o \notin found[s]
      <4>1. Wanted[i] \notin found[s]
        BY <3>3, <3>1, <1>1 DEF FoundInv, Settled, OwnerMade
      <4>2. QED
        BY <4>1, <3>1, <1>1 DEF FoundInv
    <3>5. j = i + 1
      BY <1>3, <3>2, <3>4
    <3>6. AboutTo(s, o)'
      <4>1. phase'[s] = "make" /\ next'[s] = i + 1 /\ Wanted' = Wanted
        BY <3>2, <3>5, <1>2, <1>4, <1>7
      <4>2. QED
        BY <3>2, <4>1 DEF AboutTo
    <3>7. QED
      BY <3>6
  <2>5. QED
    BY <2>3, <2>4
<1>12. QED
  BY <1>6, <1>10, <1>11 DEF MadeInv

(* Each check of an object keeps the invariant.                            *)
LEMMA CheckMade ==
  ASSUME MadeInv, NEW s \in Servers, Check(s)
  PROVE  MadeInv'
<1>1. phase[s] = "make" /\ next[s] <= Len(Wanted) /\ UNCHANGED <<conf, made, active, found, torn>>
  BY DEF Check
<1>2. conf.database # "mongodb"
  BY DEF Check, CheckedFirst
<1>3. CASE Wanted[next[s]] \in made
  <2>1. next' = [next EXCEPT ![s] = Skip(found[s], @ + 1)] /\ UNCHANGED phase
    BY <1>3 DEF Check
  <2>2. phase' = [phase EXCEPT ![s] = "make"]
    BY <2>1, <1>1 DEF MadeInv, MakeType
  <2>3. made' = made \cup {Wanted[next[s]]}
    BY <1>1, <1>3
  <2>4. QED
    BY <1>1, <1>2, <2>1, <2>2, <2>3, NextMade
<1>4. CASE Wanted[next[s]] \notin made
  <2>1. phase' = [phase EXCEPT ![s] = "create"] /\ UNCHANGED next
    BY <1>4 DEF Check, Goto
  <2>2. MakeType'
    BY <1>1, <2>1 DEF MadeInv, MakeType, Phases
  <2>3. Wanted' = Wanted /\ \A o : Settled(o) => Settled(o)'
    BY <1>1 DEF Wanted, Settled, OwnerMade
  <2>4. phase'[s] = "create" /\ \A t \in Servers : t # s => phase'[t] = phase[t]
    BY <2>1 DEF MadeInv, MakeType
  <2>5. FoundInv(s)' /\ PassedInv(s)' /\ ServedInv(s)'
    BY <1>1, <2>1, <2>3, <2>4 DEF MadeInv, FoundInv, PassedInv, ServedInv
  <2>6. \A t \in Servers : FoundInv(t)' /\ PassedInv(t)' /\ ServedInv(t)'
    <3> SUFFICES ASSUME NEW t \in Servers PROVE FoundInv(t)' /\ PassedInv(t)' /\ ServedInv(t)'
      OBVIOUS
    <3>1. CASE t = s
      BY <3>1, <2>5
    <3>2. CASE t # s
      BY <3>2, <1>1, <2>1, <2>4, Grows
    <3>3. QED
      BY <3>1, <3>2
  <2>7. IndexInv'
    BY <1>1, <1>2 DEF IndexInv
  <2>8. QED
    BY <2>2, <2>6, <2>7 DEF MadeInv
<1>5. QED
  BY <1>3, <1>4

(* So does each creation.                                                  *)
LEMMA CreateMade ==
  ASSUME MadeInv, NEW s \in Servers, CreateTable(s)
  PROVE  MadeInv'
<1>1. next[s] <= Len(Wanted) /\ phase[s] \in {"make", "create"}
  BY DEF CreateTable
<1>2. CASE CreateErr(Wanted[next[s]])
  BY <1>1, <1>2, InitFailsMade DEF CreateTable
<1>3. CASE ~CreateErr(Wanted[next[s]])
  <2>1. /\ made' = made \cup {Wanted[next[s]]}
        /\ next' = [next EXCEPT ![s] = Skip(found[s], @ + 1)]
        /\ phase' = [phase EXCEPT ![s] = "make"]
        /\ UNCHANGED <<conf, active, found, torn>>
    BY <1>3 DEF CreateTable, Goto
  <2>2. conf.database = "mongodb" /\ Wanted[next[s]] \notin Index => Wanted[next[s]] \notin made
    BY <1>3 DEF CreateErr
  <2>3. QED
    BY <1>1, <2>1, <2>2, NextMade
<1>4. QED
  BY <1>2, <1>3

(* So does assembling the server once Init has returned.                   *)
LEMMA AssembleMade ==
  ASSUME MadeInv, NEW s \in Servers, Assemble(s)
  PROVE  MadeInv'
<1>1. CASE Exit(s)
  BY <1>1, ExitMade
<1>2. CASE Goto(s, "serving") /\ ForgetAll(s) /\ UNCHANGED <<conf, made, active, torn>>
  <2>1. /\ phase[s] = "make" /\ next[s] > Len(Wanted)
        /\ conf.database = "dynamodb" => Range(Wanted) \subseteq active
    BY DEF Assemble, InitReturns, MadeAll
  <2>2. Len(Wanted) \in Nat /\ next[s] \in Nat
    BY WantedIs DEF MadeInv, MakeType
  <2>3. \A k \in 1..Len(Wanted) : Settled(Wanted[k])
    BY <2>1, <2>2 DEF MadeInv, PassedInv
  <2>4. \A o \in Index : ~AboutTo(s, o)
    BY <2>1, <2>2 DEF AboutTo
  <2>5. QED
    BY <1>2, <2>1, <2>3, <2>4, ForgetStep DEF Goto, Phases
<1>3. QED
  BY <1>1, <1>2 DEF Assemble

(* Every step keeps the invariant.                                         *)
LEMMA MadeStep ==
  ASSUME MadeInv, [StartNext]_startVars
  PROVE  MadeInv'
<1>1. ASSUME NEW s \in Servers, StartServer(s) PROVE MadeInv'
  BY <1>1, GotoMade DEF StartServer, Phases
<1>2. ASSUME NEW s \in Servers, OpenDatabase(s) PROVE MadeInv'
  <2>1. phase[s] = "open"
    BY <1>2 DEF OpenDatabase
  <2>2. Exit(s) \/ (Goto(s, "look") /\ UNCHANGED <<conf, made, active, next, found, torn>>)
    BY <1>2 DEF OpenDatabase
  <2>3. QED
    BY <2>1, <2>2, ExitMade, GotoMade DEF Phases
<1>3. ASSUME NEW s \in Servers, LookFirst(s) \/ Check(s) \/ CreateTable(s) \/ Assemble(s)
      PROVE  MadeInv'
  BY <1>3, LookMade, CheckMade, CreateMade, AssembleMade
<1>4. ASSUME NEW s \in Servers, Answer(s) \/ Answered(s) \/ CloseGateway(s) PROVE MadeInv'
  BY <1>4, QuietStep DEF Answer, Answered, CloseGateway
<1>5. ASSUME NEW s \in Servers, Interrupt(s) PROVE MadeInv'
  BY <1>5, GotoMade DEF Interrupt, Phases
<1>6. ASSUME NEW s \in Servers, HTTPPortTaken(s) PROVE MadeInv'
  BY <1>6, GotoMade DEF HTTPPortTaken, Phases
<1>7. ASSUME NEW s \in Servers, RPCPortTaken(s) \/ ServeReturns(s) \/ SchedulerReturns(s)
      PROVE  MadeInv'
  BY <1>7, ExitMade DEF RPCPortTaken, ServeReturns, SchedulerReturns
<1>8. ASSUME NEW s \in Servers, CallFails(s) PROVE MadeInv'
  BY <1>8, InitFailsMade DEF CallFails
<1>9. ASSUME NEW s \in Servers, Crash(s) PROVE MadeInv'
  <2>1. torn' = torn \cup TornBy(s)
    BY <1>9 DEF Crash
  <2>2. \A o \in Index : AboutTo(s, o) => o \in torn'
    BY <2>1, TornTaken
  <2>3. phase' = [phase EXCEPT ![s] = "down"] /\ ForgetAll(s) /\ UNCHANGED <<conf, made, active>>
    BY <1>9 DEF Crash
  <2>4. QED
    BY <2>1, <2>2, <2>3, ForgetStep DEF Phases
<1>10. ASSUME TableReady \/ UNCHANGED startVars PROVE MadeInv'
  BY <1>10, QuietStep DEF TableReady, startVars
<1>11. QED
  BY <1>1, <1>2, <1>3, <1>4, <1>5, <1>6, <1>7, <1>8, <1>9, <1>10 DEF StartNext, Progress

(* A server that accepts calls finds in its database everything that Init  *)
(* is to make, but for the indexes that MongoDB.Init leaves unmade,        *)
(* however many servers start at once and whichever fail midway:           *)
(* InitMeansMade, for any number of servers, calls and outages (Init of    *)
(* the databases, NewServer, Run).                                         *)
THEOREM StartCorrect == StartSpec => []InitMeansMade
<1>1. StartInit => MadeInv
  <2> SUFFICES ASSUME StartInit PROVE MadeInv
    OBVIOUS
  <2>1. MakeType
    BY DEF StartInit, Fresh, MakeType, Phases
  <2>2. \A s \in Servers : FoundInv(s) /\ PassedInv(s) /\ ServedInv(s)
    BY DEF StartInit, Fresh, FoundInv, PassedInv, ServedInv
  <2>3. IndexInv
    BY DEF StartInit, Fresh, IndexInv, OwnerMade
  <2>4. QED
    BY <2>1, <2>2, <2>3 DEF MadeInv
<1>2. MadeInv /\ [StartNext]_startVars => MadeInv'
  BY MadeStep
<1>3. MadeInv => InitMeansMade
  <2> SUFFICES ASSUME MadeInv, NEW s \in Servers,
                      phase[s] \in {"serving", "stopping", "failing"}
               PROVE  /\ \A o \in Range(Wanted) \ made : o \in torn \/ Underway(o)
                      /\ conf.database = "dynamodb" => Range(Wanted) \subseteq active
    BY DEF InitMeansMade
  <2>1. ServedInv(s)
    BY DEF MadeInv
  <2>2. ASSUME NEW o \in Range(Wanted), o \notin made PROVE o \in torn \/ Underway(o)
    <3>1. DOMAIN Wanted = 1..Len(Wanted)
      BY WantedIs DEF MadeInv
    <3>2. PICK k \in 1..Len(Wanted) : o = Wanted[k]
      BY <2>2, <3>1 DEF Range
    <3>3. conf.database = "mongodb" /\ OwnerMade(o) /\ o \in Index
      BY <2>1, <2>2, <3>2 DEF ServedInv, Settled, OwnerMade, Index
    <3>4. ASSUME NEW t \in Servers, AboutTo(t, o) PROVE Underway(o)
      <4>1. TornBy(t) = {o}
        BY <3>3, <3>4 DEF TornBy, AboutTo
      <4>2. QED
        BY <4>1 DEF Underway
    <3>5. QED
      BY <2>2, <3>3, <3>4 DEF MadeInv, IndexInv
  <2>3. QED
    BY <2>1, <2>2 DEF ServedInv
<1>4. QED
  BY <1>1, <1>2, <1>3, PTL DEF StartSpec

-----------------------------------------------------------------------------
(* The pages of a listing.                                                 *)

(* The behaviours of a listing; safety needs no fairness.                  *)
ListSpec == ListInit /\ [][ListNext]_listVars

(* The orders of the tasks: by id, or by creation time.                    *)
Ranking == {f \in [TaskId -> Nat] : \A t, u \in TaskId : f[t] = f[u] => t = u}

(* The sequence is in the order, newest first.                             *)
Falling(s, rank) == \A i, j \in 1..Len(s) : i < j => rank[s[i]] > rank[s[j]]

(* NewestFirst lists each task of the set, in the order.                   *)
LEMMA SortedIs ==
  ASSUME NEW tasks, NEW rank, NEW s \in NewestFirst(tasks, rank)
  PROVE  /\ s \in Seq(tasks) /\ Len(s) \in Nat /\ Falling(s, rank)
         /\ \A t \in tasks : \E i \in 1..Len(s) : s[i] = t
<1>1. PICK n \in 0..LastTask : s \in [1..n -> tasks]
  BY DEF NewestFirst
<1>2. s \in Seq(tasks) /\ Len(s) = n /\ n \in Nat /\ DOMAIN s = 1..Len(s)
  BY <1>1, PageAssumption
<1>3. QED
  BY <1>2 DEF NewestFirst, Falling

(* A page has the first tasks of the set: one that is not on it is older   *)
(* than all that are, and the page is full.                                *)
LEMMA PageIs ==
  ASSUME NEW tasks \in SUBSET TaskId, NEW rank \in Ranking, pageSize \in Nat \ {0}, NEW p \in First(tasks, rank)
  PROVE  /\ p \in Seq(tasks) /\ Len(p) \in Nat /\ Len(p) <= pageSize
         /\ Falling(p, rank)
         /\ \A t \in tasks :
              \/ \E i \in 1..Len(p) : p[i] = t
              \/ Len(p) = pageSize /\ rank[t] < rank[p[pageSize]]
<1>1. PICK s \in NewestFirst(tasks, rank) : p = SubSeq(s, 1, IF Len(s) < pageSize THEN Len(s) ELSE pageSize)
  BY DEF First
<1>2. s \in Seq(tasks) /\ Len(s) \in Nat /\ Falling(s, rank) /\ \A t \in tasks : \E i \in 1..Len(s) : s[i] = t
  BY SortedIs
<1>3. PICK k : k = IF Len(s) < pageSize THEN Len(s) ELSE pageSize
  OBVIOUS
<1>4. k \in Nat /\ k <= Len(s) /\ k <= pageSize /\ (k = Len(s) \/ k = pageSize) /\ Len(s) \in Nat
  BY <1>2, <1>3
<1>5. p = SubSeq(s, 1, k)
  BY <1>1, <1>3
<1>6. p \in Seq(tasks) /\ Len(p) = k /\ \A i \in 1..k : p[i] = s[i]
  BY <1>2, <1>4, <1>5
<1>8. Falling(p, rank)
  <2>1. SUFFICES ASSUME NEW i \in 1..k, NEW j \in 1..k, i < j PROVE rank[p[i]] > rank[p[j]]
    BY <1>6 DEF Falling
  <2>2. i \in 1..Len(s) /\ j \in 1..Len(s)
    BY <1>4
  <2>3. rank[s[i]] > rank[s[j]]
    BY <1>2, <2>1, <2>2 DEF Falling
  <2>4. QED
    BY <1>6, <2>3
<1>9. ASSUME NEW t \in tasks, \A i \in 1..k : p[i] # t PROVE k = pageSize /\ rank[t] < rank[p[pageSize]]
  <2>1. PICK i \in 1..Len(s) : s[i] = t
    BY <1>2
  <2>2. i > k /\ k = pageSize
    BY <1>4, <1>6, <1>9, <2>1
  <2>3. k \in 1..Len(s) /\ k \in 1..k /\ k < i
    BY <1>4, <2>1, <2>2
  <2>4. rank[s[k]] > rank[s[i]]
    BY <1>2, <2>3 DEF Falling
  <2>5. p[k] = s[k] /\ k = pageSize
    BY <1>6, <2>2, <2>3
  <2>6. s[k] \in TaskId /\ t \in TaskId /\ rank \in [TaskId -> Nat]
    <3>1. s[k] \in tasks
      BY <1>2, <2>3
    <3>2. QED
      BY <3>1 DEF Ranking
  <2>7. QED
    BY <2>1, <2>4, <2>5, <2>6
<1>10. QED
  BY <1>4, <1>6, <1>8, <1>9

(* What the pages of a store are ordered by.                               *)
PageKey(t) == IF store = "datastore" THEN created[t] ELSE t

(* The values the variables take.                                          *)
ListType ==
  /\ created \in Ranking
  /\ stored \in SUBSET TaskId
  /\ matches \in SUBSET TaskId
  /\ ~filtered => matches = TaskId
  /\ pageSize \in Nat \ {0}
  /\ token \in TaskId \cup {0}
  /\ listed \in Seq(TaskId)
  /\ finished \in BOOLEAN
  /\ steady \subseteq stored \cap matches

(* The task is on a page that was returned.                                *)
ListedBy(t) == \E i \in 1..Len(listed) : listed[i] = t

(* DynamoDB is not asked for a filter.                                     *)
WholeListing == ~(store = "dynamodb" /\ filtered)

(* The tasks returned are in the order, so that none comes twice; they are *)
(* at or before the token, and every steady task at or before the token is *)
(* among them.                                                             *)
PagesInv ==
  /\ \A i, j \in 1..Len(listed) : i < j => PageKey(listed[i]) > PageKey(listed[j])
  /\ ~finished /\ token = 0 => listed = <<>>
  /\ token # 0 => \A i \in 1..Len(listed) : PageKey(listed[i]) >= PageKey(token)
  /\ token # 0 /\ WholeListing => \A t \in steady : PageKey(t) >= PageKey(token) => ListedBy(t)
  /\ finished /\ WholeListing => \A t \in steady : ListedBy(t)

(* The inductive invariant.                                                *)
ListInv == ListType /\ (OrdersAgree => PagesInv)

(* The pages' order is an order of the tasks.                              *)
LEMMA KeyIs ==
  ASSUME ListType
  PROVE  /\ 0 \notin TaskId
         /\ \A t \in TaskId : PageKey(t) \in Nat
         /\ \A t, u \in TaskId : PageKey(t) = PageKey(u) => t = u
<1>1. 0 \notin TaskId /\ \A t \in TaskId : t \in Nat
  BY PageAssumption DEF TaskId
<1>2. \A t \in TaskId : created[t] \in Nat
  BY DEF ListType, Ranking
<1>3. \A t, u \in TaskId : created[t] = created[u] => t = u
  BY DEF ListType, Ranking
<1>4. QED
  BY <1>1, <1>2, <1>3 DEF PageKey

(* A page of tasks after the token, in the order, that leaves out no       *)
(* steady task before the next token keeps the invariant.                  *)
LEMMA PageStep ==
  ASSUME ListInv, ~finished, NEW page \in Seq(TaskId), NEW following \in TaskId \cup {0}, Return(page, following),
         OrdersAgree =>
           /\ \A i, j \in 1..Len(page) : i < j => PageKey(page[i]) > PageKey(page[j])
           /\ token # 0 => \A i \in 1..Len(page) : PageKey(page[i]) < PageKey(token)
           /\ following # 0 => \A i \in 1..Len(page) : PageKey(page[i]) >= PageKey(following)
           /\ following # 0 /\ token # 0 => PageKey(following) < PageKey(token)
           /\ WholeListing => \A t \in steady : token = 0 \/ PageKey(t) < PageKey(token) =>
                         \/ \E i \in 1..Len(page) : page[i] = t
                         \/ following # 0 /\ PageKey(t) < PageKey(following)
  PROVE  ListInv'
<1>1. ListType'
  BY DEF ListInv, ListType, Return
<1>2. UNCHANGED <<store, created, filtered, steady>> /\ listed' = listed \o page /\ token' = following /\ finished' = (following = 0)
  BY DEF Return
<1>3. SUFFICES ASSUME OrdersAgree' PROVE PagesInv'
  BY <1>1 DEF ListInv
<1>4. OrdersAgree
  BY <1>2, <1>3 DEF OrdersAgree
<1>5. PagesInv /\ ListType
  BY <1>4 DEF ListInv
<1>6. \A t : PageKey(t)' = PageKey(t)
  BY <1>2 DEF PageKey
<1>7. WholeListing' = WholeListing
  BY <1>2 DEF WholeListing
<1>8. /\ listed \in Seq(TaskId) /\ Len(listed) \in Nat /\ Len(page) \in Nat
      /\ listed' \in Seq(TaskId) /\ Len(listed') = Len(listed) + Len(page)
      /\ \A i \in 1..Len(listed) : i \in 1..Len(listed') /\ listed'[i] = listed[i] /\ listed[i] \in TaskId
      /\ \A i \in 1..Len(page) : i + Len(listed) \in 1..Len(listed') /\ listed'[i + Len(listed)] = page[i] /\ page[i] \in TaskId
  BY <1>2, <1>5 DEF ListType
<1>9. \A k \in 1..Len(listed') : k \in 1..Len(listed) \/ \E i \in 1..Len(page) : k = i + Len(listed)
  <2>1. SUFFICES ASSUME NEW k \in 1..Len(listed'), k \notin 1..Len(listed) PROVE \E i \in 1..Len(page) : k = i + Len(listed)
    OBVIOUS
  <2>2. k - Len(listed) \in 1..Len(page) /\ k = (k - Len(listed)) + Len(listed)
    BY <1>8, <2>1
  <2>3. QED
    BY <2>2
<1>10. \A t \in TaskId : PageKey(t) \in Nat
  BY <1>5, KeyIs
<1>11. 0 \notin TaskId /\ token \in TaskId \cup {0}
  BY <1>5, KeyIs DEF ListType
<1>12. ASSUME NEW i \in 1..Len(listed), NEW j \in 1..Len(page) PROVE PageKey(listed[i]) > PageKey(page[j])
  <2>1. token # 0
    BY <1>5, <1>8 DEF PagesInv
  <2>2. PageKey(listed[i]) >= PageKey(token) /\ PageKey(page[j]) < PageKey(token)
    BY <1>4, <1>5, <2>1 DEF PagesInv
  <2>3. PageKey(listed[i]) \in Nat /\ PageKey(page[j]) \in Nat /\ PageKey(token) \in Nat
    BY <1>8, <1>10, <1>11, <2>1
  <2>4. QED
    BY <2>2, <2>3
<1>13. \A i, j \in 1..Len(listed') : i < j => PageKey(listed'[i]) > PageKey(listed'[j])
  <2>1. SUFFICES ASSUME NEW i \in 1..Len(listed'), NEW j \in 1..Len(listed'), i < j
                 PROVE  PageKey(listed'[i]) > PageKey(listed'[j])
    OBVIOUS
  <2>2. CASE j \in 1..Len(listed)
    <3>1. i \in 1..Len(listed)
      BY <1>8, <2>1, <2>2
    <3>2. QED
      BY <1>5, <1>8, <2>1, <2>2, <3>1 DEF PagesInv
  <2>3. CASE j \notin 1..Len(listed)
    <3>1. PICK b \in 1..Len(page) : j = b + Len(listed)
      BY <1>9, <2>3
    <3>2. CASE i \in 1..Len(listed)
      BY <1>8, <1>12, <3>1, <3>2
    <3>3. CASE i \notin 1..Len(listed)
      <4>1. PICK a \in 1..Len(page) : i = a + Len(listed)
        BY <1>9, <3>3
      <4>2. a < b
        BY <1>8, <2>1, <3>1, <4>1
      <4>3. PageKey(page[a]) > PageKey(page[b])
        BY <1>4, <4>2
      <4>4. QED
        BY <1>8, <3>1, <4>1, <4>3
    <3>4. QED
      BY <3>2, <3>3
  <2>4. QED
    BY <2>2, <2>3
<1>14. ASSUME following # 0 PROVE \A i \in 1..Len(listed') : PageKey(listed'[i]) >= PageKey(following)
  <2>1. SUFFICES ASSUME NEW i \in 1..Len(listed') PROVE PageKey(listed'[i]) >= PageKey(following)
    OBVIOUS
  <2>2. CASE i \in 1..Len(listed)
    <3>1. token # 0
      BY <1>5, <1>8, <2>2 DEF PagesInv
    <3>2. PageKey(listed[i]) >= PageKey(token) /\ PageKey(following) < PageKey(token)
      BY <1>4, <1>5, <1>14, <2>2, <3>1 DEF PagesInv
    <3>3. PageKey(listed[i]) \in Nat /\ PageKey(following) \in Nat /\ PageKey(token) \in Nat
      BY <1>8, <1>10, <1>11, <1>14, <2>2, <3>1
    <3>4. QED
      BY <1>8, <2>2, <3>2, <3>3
  <2>3. CASE i \notin 1..Len(listed)
    <3>1. PICK b \in 1..Len(page) : i = b + Len(listed)
      BY <1>9, <2>3
    <3>2. QED
      BY <1>4, <1>8, <1>14, <3>1
  <2>4. QED
    BY <2>2, <2>3
<1>15. ASSUME WholeListing, NEW t \in steady, following = 0 \/ PageKey(t) >= PageKey(following) PROVE ListedBy(t)'
  <2>1. t \in TaskId /\ PageKey(t) \in Nat
    BY <1>5, <1>10 DEF ListType
  <2>2. CASE ListedBy(t)
    BY <1>8, <2>2 DEF ListedBy
  <2>3. CASE \E i \in 1..Len(page) : page[i] = t
    BY <1>8, <2>3 DEF ListedBy
  <2>4. CASE ~ListedBy(t) /\ ~\E i \in 1..Len(page) : page[i] = t
    <3>1. token = 0 \/ PageKey(t) < PageKey(token)
      <4>1. token # 0 => PageKey(token) \in Nat /\ ~(PageKey(t) >= PageKey(token))
        BY <1>5, <1>10, <1>11, <1>15, <2>4 DEF PagesInv
      <4>2. QED
        BY <2>1, <4>1
    <3>2. following # 0 /\ PageKey(t) < PageKey(following)
      BY <1>4, <1>15, <2>4, <3>1
    <3>3. PageKey(following) \in Nat
      BY <1>10, <3>2
    <3>4. QED
      BY <1>15, <2>1, <3>2, <3>3
  <2>5. QED
    BY <2>2, <2>3, <2>4
<1>16. QED
  BY <1>2, <1>6, <1>7, <1>13, <1>14, <1>15 DEF PagesInv

(* A full page of the tasks after the token is one.                        *)
LEMMA RankedPage ==
  ASSUME ListInv, ~finished, NEW rest \in SUBSET stored, NEW rank \in Ranking,
         OrdersAgree => \A t \in TaskId : rank[t] = PageKey(t),
         OrdersAgree => \A t \in stored : t \in rest <=> token = 0 \/ PageKey(t) < PageKey(token),
         QueryPage(rest, rank)
  PROVE  ListInv'
<1>1. PICK page \in First(rest \cap matches, rank) :
        Return(page, IF Len(page) = pageSize THEN page[pageSize] ELSE 0)
  BY DEF QueryPage
<1>2. PICK following : following = IF Len(page) = pageSize THEN page[pageSize] ELSE 0
  OBVIOUS
<1>3. ListType /\ pageSize \in Nat \ {0} /\ stored \in SUBSET TaskId /\ steady \subseteq stored \cap matches
  BY DEF ListInv, ListType
<1>4. /\ page \in Seq(rest \cap matches) /\ Len(page) \in Nat /\ Len(page) <= pageSize
      /\ Falling(page, rank)
      /\ \A t \in rest \cap matches :
           \/ \E i \in 1..Len(page) : page[i] = t
           \/ Len(page) = pageSize /\ rank[t] < rank[page[pageSize]]
  <2>1. rest \cap matches \in SUBSET TaskId
    BY <1>3
  <2>2. QED
    BY <1>3, <2>1, PageIs
<1>5. \A i \in 1..Len(page) : page[i] \in rest /\ page[i] \in TaskId
  BY <1>3, <1>4
<1>6. page \in Seq(TaskId)
  BY <1>3, <1>4
<1>7. following # 0 => Len(page) = pageSize /\ pageSize \in 1..Len(page) /\ following = page[pageSize]
  BY <1>2, <1>3, <1>4
<1>8. following \in TaskId \cup {0}
  BY <1>5, <1>7
<1>9. Return(page, following)
  BY <1>1, <1>2
<1>10. 0 \notin TaskId /\ \A t \in TaskId : PageKey(t) \in Nat
  BY <1>3, KeyIs
<1>11. Len(page) = pageSize => following = page[pageSize] /\ following # 0
  <2>1. Len(page) = pageSize => pageSize \in 1..Len(page) /\ following = page[pageSize]
    BY <1>2, <1>3, <1>4
  <2>2. QED
    BY <1>5, <1>10, <2>1
<1>12. ASSUME OrdersAgree
       PROVE  /\ \A i, j \in 1..Len(page) : i < j => PageKey(page[i]) > PageKey(page[j])
              /\ token # 0 => \A i \in 1..Len(page) : PageKey(page[i]) < PageKey(token)
              /\ following # 0 => \A i \in 1..Len(page) : PageKey(page[i]) >= PageKey(following)
              /\ following # 0 /\ token # 0 => PageKey(following) < PageKey(token)
              /\ \A t \in steady : token = 0 \/ PageKey(t) < PageKey(token) =>
                   \/ \E i \in 1..Len(page) : page[i] = t
                   \/ following # 0 /\ PageKey(t) < PageKey(following)
  <2>1. \A i \in 1..Len(page) : rank[page[i]] = PageKey(page[i]) /\ PageKey(page[i]) \in Nat
    BY <1>5, <1>10, <1>12
  <2>2. ASSUME NEW i \in 1..Len(page), NEW j \in 1..Len(page), i < j PROVE PageKey(page[i]) > PageKey(page[j])
    <3>1. rank[page[i]] > rank[page[j]]
      BY <1>4, <2>2 DEF Falling
    <3>2. QED
      BY <2>1, <3>1
  <2>3. token # 0 => \A i \in 1..Len(page) : PageKey(page[i]) < PageKey(token)
    BY <1>3, <1>5, <1>12
  <2>4. ASSUME following # 0, NEW i \in 1..Len(page) PROVE PageKey(page[i]) >= PageKey(following)
    <3>1. i = pageSize \/ i < pageSize
      BY <1>3, <1>7, <2>4
    <3>2. PageKey(page[pageSize]) \in Nat /\ PageKey(page[i]) \in Nat
      BY <1>7, <2>1, <2>4
    <3>3. QED
      BY <1>7, <2>2, <2>4, <3>1, <3>2
  <2>5. following # 0 /\ token # 0 => PageKey(following) < PageKey(token)
    BY <1>7, <2>3
  <2>6. ASSUME NEW t \in steady, token = 0 \/ PageKey(t) < PageKey(token), \A i \in 1..Len(page) : page[i] # t
        PROVE  following # 0 /\ PageKey(t) < PageKey(following)
    <3>1. t \in rest \cap matches /\ t \in TaskId
      BY <1>3, <1>12, <2>6
    <3>2. Len(page) = pageSize /\ rank[t] < rank[page[pageSize]]
      BY <1>4, <2>6, <3>1
    <3>3. following = page[pageSize] /\ following # 0 /\ following \in TaskId
      BY <1>8, <1>11, <3>2
    <3>4. rank[t] = PageKey(t) /\ rank[following] = PageKey(following)
      BY <1>12, <3>1, <3>3
    <3>5. QED
      BY <3>2, <3>3, <3>4
  <2>7. QED
    BY <2>2, <2>3, <2>4, <2>5, <2>6
<1>13. QED
  BY <1>6, <1>8, <1>9, <1>12, PageStep

(* The order by ids.                                                       *)
LEMMA ByIdIs ==
  /\ ById \in Ranking
  /\ \A t \in TaskId : ById[t] = t
  BY PageAssumption DEF ById, Ranking, TaskId

(* The pages of BoltDB, Badger and Elastic.                                *)
LEMMA IdPage ==
  ASSUME ListInv, ~finished, store \in {"boltdb", "badger", "elastic"}, QueryPage(AfterToken, ById)
  PROVE  ListInv'
<1>1. \A t : PageKey(t) = t
  BY DEF PageKey
<1>2. AfterToken \in SUBSET stored /\ \A t \in stored : t \in AfterToken <=> token = 0 \/ PageKey(t) < PageKey(token)
  BY <1>1 DEF AfterToken
<1>3. \A t \in TaskId : ById[t] = PageKey(t)
  BY <1>1, ByIdIs
<1>4. QED
  BY <1>2, <1>3, ByIdIs, RankedPage

(* The pages of MongoDB and Postgres, where the two orders agree.          *)
LEMMA TimePage ==
  ASSUME ListInv, ~finished, store \in {"mongodb", "postgres"}, QueryPage(AfterToken, created)
  PROVE  ListInv'
<1>1. \A t : PageKey(t) = t
  BY DEF PageKey
<1>2. AfterToken \in SUBSET stored /\ \A t \in stored : t \in AfterToken <=> token = 0 \/ PageKey(t) < PageKey(token)
  BY <1>1 DEF AfterToken
<1>3. OrdersAgree => \A t \in TaskId : created[t] = PageKey(t)
  BY <1>1 DEF OrdersAgree
<1>4. created \in Ranking
  BY DEF ListInv, ListType
<1>5. QED
  BY <1>2, <1>3, <1>4, RankedPage

(* The pages of Datastore.                                                 *)
LEMMA CursorPage ==
  ASSUME ListInv, ~finished, DatastorePage
  PROVE  ListInv'
<1>1. PICK rest : rest = {t \in stored : token = 0 \/ created[t] < created[token]}
  OBVIOUS
<1>2. store = "datastore" /\ QueryPage(rest, created)
  BY <1>1 DEF DatastorePage
<1>3. \A t : PageKey(t) = created[t]
  BY <1>2 DEF PageKey
<1>4. rest \in SUBSET stored /\ \A t \in stored : t \in rest <=> token = 0 \/ PageKey(t) < PageKey(token)
  BY <1>1, <1>3
<1>5. created \in Ranking
  BY DEF ListInv, ListType
<1>6. QED
  BY <1>2, <1>3, <1>4, <1>5, RankedPage

(* The pages of DynamoDB, whose limit counts the items before the filter.  *)
LEMMA DynamoStep ==
  ASSUME ListInv, ~finished, DynamoPage
  PROVE  ListInv'
<1>1. PICK entries \in First(AfterToken, ById) :
        \E page \in NewestFirst({t \in matches : \E i \in DOMAIN entries : entries[i] = t}, ById) :
          Return(page, IF page # <<>> /\ Len(entries) = pageSize THEN entries[pageSize] ELSE 0)
  BY DEF DynamoPage
<1>2. PICK some : some = {t \in matches : \E i \in DOMAIN entries : entries[i] = t}
  OBVIOUS
<1>3. PICK page \in NewestFirst(some, ById) :
        Return(page, IF page # <<>> /\ Len(entries) = pageSize THEN entries[pageSize] ELSE 0)
  BY <1>1, <1>2
<1>4. PICK following : following = IF page # <<>> /\ Len(entries) = pageSize THEN entries[pageSize] ELSE 0
  OBVIOUS
<1>5. /\ ListType /\ pageSize \in Nat \ {0} /\ stored \in SUBSET TaskId /\ matches \in SUBSET TaskId
      /\ steady \subseteq stored \cap matches
  BY DEF ListInv, ListType
<1>6. AfterToken \in SUBSET TaskId /\ some \in SUBSET TaskId
  BY <1>2, <1>5 DEF AfterToken
<1>7. /\ entries \in Seq(AfterToken) /\ Len(entries) \in Nat /\ Len(entries) <= pageSize
      /\ Falling(entries, ById) /\ DOMAIN entries = 1..Len(entries)
      /\ \A t \in AfterToken :
           \/ \E i \in 1..Len(entries) : entries[i] = t
           \/ Len(entries) = pageSize /\ ById[t] < ById[entries[pageSize]]
  <2>1. /\ entries \in Seq(AfterToken) /\ Len(entries) \in Nat /\ Len(entries) <= pageSize
        /\ Falling(entries, ById)
        /\ \A t \in AfterToken :
             \/ \E i \in 1..Len(entries) : entries[i] = t
             \/ Len(entries) = pageSize /\ ById[t] < ById[entries[pageSize]]
    BY <1>5, <1>6, ByIdIs, PageIs
  <2>2. QED
    BY <2>1
<1>8. /\ page \in Seq(some) /\ Len(page) \in Nat /\ Falling(page, ById)
      /\ \A t \in some : \E i \in 1..Len(page) : page[i] = t
  BY SortedIs
<1>9. store = "dynamodb" /\ Return(page, following)
  BY <1>3, <1>4 DEF DynamoPage
<1>10. \A t : PageKey(t) = t
  BY <1>9 DEF PageKey
<1>11. \A i \in 1..Len(entries) : entries[i] \in AfterToken /\ entries[i] \in TaskId
  BY <1>6, <1>7
<1>12. \A i \in 1..Len(page) : page[i] \in TaskId /\ \E k \in 1..Len(entries) : entries[k] = page[i]
  BY <1>2, <1>6, <1>8
<1>13. page \in Seq(TaskId)
  BY <1>6, <1>8
<1>14. 0 \notin TaskId /\ \A t \in TaskId : t \in Nat /\ ById[t] = t
  BY <1>5, <1>10, KeyIs, ByIdIs
<1>15. following # 0 => Len(entries) = pageSize /\ pageSize \in 1..Len(entries) /\ following = entries[pageSize]
  <2>1. following # 0 => Len(entries) = pageSize /\ following = entries[pageSize]
    BY <1>4
  <2>2. pageSize \in 1..pageSize
    BY <1>5
  <2>3. QED
    BY <2>1, <2>2
<1>16. following \in TaskId \cup {0}
  BY <1>11, <1>15
<1>17. ASSUME NEW i \in 1..Len(page), NEW j \in 1..Len(page), i < j PROVE page[i] > page[j]
  <2>1. ById[page[i]] > ById[page[j]]
    BY <1>8, <1>17 DEF Falling
  <2>2. QED
    BY <1>12, <1>14, <2>1
<1>18. ASSUME token # 0 PROVE \A i \in 1..Len(entries) : entries[i] < token
  BY <1>11, <1>18 DEF AfterToken
<1>19. ASSUME following # 0, NEW i \in 1..Len(page) PROVE page[i] >= following
  <2>1. PICK k \in 1..Len(entries) : entries[k] = page[i]
    BY <1>12
  <2>2. k = pageSize \/ k < pageSize
    BY <1>5, <1>15, <1>19
  <2>3. k < pageSize => ById[entries[k]] > ById[entries[pageSize]]
    BY <1>7, <1>15, <1>19 DEF Falling
  <2>4. entries[k] \in Nat /\ entries[pageSize] \in Nat /\ ById[entries[k]] = entries[k] /\ ById[entries[pageSize]] = entries[pageSize]
    BY <1>11, <1>14, <1>15, <1>19
  <2>5. QED
    BY <1>15, <1>19, <2>1, <2>2, <2>3, <2>4
<1>20. ASSUME WholeListing, NEW t \in steady, token = 0 \/ t < token, \A i \in 1..Len(page) : page[i] # t
       PROVE  following # 0 /\ t < following
  <2>1. matches = TaskId
    BY <1>5, <1>9, <1>20 DEF WholeListing, ListType
  <2>2. t \in AfterToken /\ t \in TaskId
    BY <1>5, <1>20 DEF AfterToken
  <2>3. \A i \in 1..Len(entries) : entries[i] \in some
    BY <1>2, <1>11, <2>1
  <2>4. \A i \in 1..Len(entries) : entries[i] # t
    BY <1>8, <1>20, <2>3
  <2>5. Len(entries) = pageSize /\ ById[t] < ById[entries[pageSize]]
    BY <1>7, <2>2, <2>4
  <2>6. pageSize \in 1..Len(entries) /\ entries[pageSize] \in some
    BY <1>5, <2>3, <2>5
  <2>7. page # <<>>
    BY <1>8, <2>6
  <2>8. following = entries[pageSize]
    BY <1>4, <2>5, <2>7
  <2>9. following \in TaskId /\ following # 0
    BY <1>11, <1>14, <2>6, <2>8
  <2>10. QED
    BY <1>14, <2>2, <2>5, <2>8, <2>9
<1>21. \A i \in 1..Len(page) : token # 0 => page[i] < token
  BY <1>12, <1>18
<1>22. following # 0 /\ token # 0 => following < token
  BY <1>15, <1>18
<1>23. QED
  BY <1>9, <1>10, <1>13, <1>16, <1>17, <1>19, <1>20, <1>21, <1>22, PageStep

(* Every step keeps the invariant.                                         *)
LEMMA ListStep ==
  ASSUME ListInv, [ListNext]_listVars
  PROVE  ListInv'
<1>1. ASSUME NEW t \in TaskId, StoreTask(t) PROVE ListInv'
  <2>1. ListType'
    BY <1>1 DEF StoreTask, ListInv, ListType
  <2>2. QED
    BY <1>1, <2>1 DEF StoreTask, ListInv, OrdersAgree, PagesInv, PageKey, ListedBy, WholeListing
<1>2. ASSUME NEW t \in TaskId, Reclassify(t) PROVE ListInv'
  <2>1. ListType'
    BY <1>2 DEF Reclassify, ListInv, ListType
  <2>2. steady' \subseteq steady /\ UNCHANGED <<store, created, filtered, token, listed, finished>>
    BY <1>2 DEF Reclassify
  <2>3. QED
    BY <2>1, <2>2 DEF ListInv, OrdersAgree, PagesInv, PageKey, ListedBy, WholeListing
<1>3. CASE ListTasks
  BY <1>3, IdPage, TimePage, CursorPage, DynamoStep
  DEF ListTasks, BoltPage, BadgerPage, ElasticPage, MongoPage, PostgresPage
<1>4. CASE UNCHANGED listVars
  BY <1>4 DEF listVars, ListInv, ListType, OrdersAgree, PagesInv, PageKey, ListedBy, WholeListing
<1>5. QED
  BY <1>1, <1>2, <1>3, <1>4 DEF ListNext

(* A complete listing returns every task that was there and selected all   *)
(* along exactly once, and no task twice, however tasks are created and    *)
(* change state between the pages: ListsEachOnce, for any number of tasks  *)
(* and any page size (ListTasks of the seven stores, GetPageSize).         *)
THEOREM ListingCorrect == ListSpec => []ListsEachOnce
<1>1. ListInit => ListInv
  <2> SUFFICES ASSUME ListInit PROVE ListInv
    OBVIOUS
  <2>1. created \in Ranking
    BY PageAssumption DEF ListInit, Ranking, TaskId
  <2>2. ListType
    <3>0. finished \in BOOLEAN
      BY DEF ListInit
    <3>1. listed \in Seq(TaskId) /\ token \in TaskId \cup {0}
      BY DEF ListInit
    <3>2. pageSize \in Nat \ {0}
      BY PageAssumption DEF ListInit
    <3>3. /\ stored \in SUBSET TaskId /\ matches \in SUBSET TaskId
          /\ ~filtered => matches = TaskId
          /\ steady \subseteq stored \cap matches
      BY DEF ListInit
    <3>4. QED
      BY <2>1, <3>0, <3>1, <3>2, <3>3 DEF ListType
  <2>3. PagesInv
    BY DEF ListInit, PagesInv
  <2>4. QED
    BY <2>2, <2>3 DEF ListInv
<1>2. ListInv => ListsEachOnce
  <2>1. SUFFICES ASSUME ListInv, OrdersAgree
                 PROVE  /\ \A i, j \in DOMAIN listed : listed[i] = listed[j] => i = j
                        /\ finished /\ WholeListing => \A t \in steady : \E i \in DOMAIN listed : listed[i] = t
    BY DEF ListsEachOnce, WholeListing
  <2>2. ListType /\ PagesInv /\ DOMAIN listed = 1..Len(listed)
    BY <2>1 DEF ListInv, ListType
  <2>3. ASSUME NEW i \in 1..Len(listed), NEW j \in 1..Len(listed), listed[i] = listed[j], i # j PROVE FALSE
    <3>1. i < j \/ j < i
      BY <2>2, <2>3 DEF ListType
    <3>2. PageKey(listed[i]) > PageKey(listed[j]) \/ PageKey(listed[j]) > PageKey(listed[i])
      BY <2>2, <3>1 DEF PagesInv
    <3>3. PageKey(listed[i]) \in Nat /\ PageKey(listed[i]) = PageKey(listed[j])
      <4>1. listed[i] \in TaskId
        BY <2>2 DEF ListType
      <4>2. QED
        BY <2>2, <2>3, <4>1, KeyIs
    <3>4. QED
      BY <3>2, <3>3
  <2>4. QED
    BY <2>2, <2>3 DEF PagesInv, ListedBy
<1>3. QED
  BY <1>1, <1>2, ListStep, PTL DEF ListSpec

-----------------------------------------------------------------------------
(* The set-up commands of AWS Batch.                                       *)

(* Where a command may be, and what a role may be given.                   *)
Step == {"DescribeEnv", "GetServiceRole", "CreateServiceRole", "AttachService",
         "GetInstanceRole", "CreateInstanceRole", "AttachInstance", "CreateEnv",
         "DescribeQueue", "CreateQueue", "DescribeDef", "GetJobRole", "CreateJobRole",
         "ListPolicies", "PutS3", "PutDynamoDB", "RegisterDef", "ok", "failed"}

(* The policies a role may be given.                                       *)
Policy == {"service", "instance", "S3", "DynamoDB"}

(* The types of the variables that the argument reads.                     *)
SetupType ==
  /\ command \in [Operator -> {"all", "def", "def --force"}]
  /\ roleGiven \in BOOLEAN /\ queue \in BOOLEAN /\ jobDef \in BOOLEAN
  /\ sstep \in [Operator -> Step]
  /\ granted \in [Role -> SUBSET Policy]
  /\ env \in {"none", "creating", "VALID", "INVALID"}

(* The requests from the job definition on, which create-all-resources     *)
(* comes to when it has its queue.                                         *)
DefRequest == {"DescribeDef", "GetJobRole", "CreateJobRole", "ListPolicies",
               "PutS3", "PutDynamoDB", "RegisterDef", "ok"}

(* The role of the job needs nothing more.                                 *)
JobWhole == roleGiven \/ Whole("job")

(* What a command has seen to when it comes to a request.                  *)
Earned(o) ==
  /\ sstep[o] = "PutDynamoDB" => "S3" \in granted["job"]
  /\ sstep[o] = "RegisterDef" => JobWhole
  /\ sstep[o] = "ok" => jobDef
  /\ sstep[o] \in DefRequest /\ command[o] = "all" => queue

(* A queue is made on a VALID environment, which stays VALID, and a        *)
(* definition once its role is whole, which stays whole.                   *)
SetupInv ==
  /\ SetupType
  /\ queue => env = "VALID"
  /\ jobDef => JobWhole
  /\ \A o \in Operator : Earned(o)

(* What one operator has earned, a request of another does not take away:  *)
(* policies, the queue and the definition are only added.                  *)
Kept ==
  /\ roleGiven' = roleGiven /\ command' = command
  /\ granted["job"] \subseteq granted'["job"]
  /\ queue => queue'
  /\ jobDef => jobDef'

(* It is enough to look at the operator that makes the request.            *)
LEMMA OthersKeep ==
  ASSUME SetupInv, NEW o \in Operator, Kept, SetupType',
         NEW s \in Step, Go(o, s),
         queue' => env' = "VALID",
         jobDef' => JobWhole',
         Earned(o)'
  PROVE  SetupInv'
<1>1. ASSUME NEW p \in Operator, p # o
      PROVE  Earned(p)'
  <2>1. sstep'[p] = sstep[p]
    BY <1>1 DEF Go, SetupInv, SetupType
  <2>2. JobWhole => JobWhole'
    BY DEF Kept, JobWhole, Whole
  <2>3. QED
    BY <1>1, <2>1, <2>2 DEF Kept, SetupInv, Earned
<1>2. QED
  BY <1>1 DEF SetupInv

(* A request that makes nothing, and where the command goes from it.       *)
LEMMA Looks ==
  ASSUME SetupInv, NEW o \in Operator, NEW s \in Step, Go(o, s),
         UNCHANGED <<command, roleGiven, Made>>,
         s = "PutDynamoDB" => "S3" \in granted["job"],
         s = "RegisterDef" => JobWhole,
         s = "ok" => jobDef,
         s \in DefRequest /\ command[o] = "all" => queue
  PROVE  SetupInv'
<1>1. SetupType' /\ sstep'[o] = s
  BY DEF SetupInv, SetupType, Go, Made
<1>2. JobWhole' = JobWhole
  BY DEF Made, JobWhole, Whole
<1>3. Earned(o)'
  BY <1>1, <1>2 DEF Earned, Made
<1>4. Kept /\ (queue' => env' = "VALID") /\ (jobDef' => JobWhole')
  BY <1>2 DEF Kept, Made, SetupInv
<1>5. QED
  BY <1>1, <1>3, <1>4, OthersKeep

(* A request that makes a role, gives it a policy or creates the           *)
(* environment, and does not end in a state that has to be earned.         *)
LEMMA MakesSomething ==
  ASSUME SetupInv, NEW o \in Operator, NEW s \in Step, Go(o, s),
         Kept, UNCHANGED <<queue, jobDef>>,
         granted' \in [Role -> SUBSET Policy],
         env' \in {"none", "creating", "VALID", "INVALID"},
         env = "VALID" => env' = "VALID",
         s \notin DefRequest \/ (s = "ListPolicies" /\ (command[o] = "all" => queue))
  PROVE  SetupInv'
<1>1. SetupType' /\ sstep'[o] = s
  BY DEF SetupInv, SetupType, Go, Kept
<1>2. JobWhole => JobWhole'
  BY DEF Kept, JobWhole, Whole
<1>3. Earned(o)'
  BY <1>1 DEF Earned, DefRequest, Kept
<1>4. (queue' => env' = "VALID") /\ (jobDef' => JobWhole')
  BY <1>2 DEF SetupInv
<1>5. QED
  BY <1>1, <1>3, <1>4, OthersKeep

(* The roles of the batch service and of the instances.                    *)
LEMMA EnvRoleStep ==
  ASSUME SetupInv, NEW o \in Operator, NEW r \in {"service", "instance"},
         LookForRole(o, r) \/ MakeRole(o, r) \/ AttachPolicy(o, r)
  PROVE  SetupInv'
<1>1. CASE LookForRole(o, r)
  <2>1. \E s \in {"GetInstanceRole", "CreateEnv", "CreateServiceRole", "CreateInstanceRole"} : Go(o, s)
    BY <1>1 DEF LookForRole, RoleDone, CreateRole
  <2>2. UNCHANGED <<command, roleGiven, Made>>
    BY <1>1 DEF LookForRole, At
  <2>3. QED
    BY <2>1, <2>2, Looks DEF DefRequest, Step
<1>2. CASE MakeRole(o, r)
  <2>1. \E s \in {"failed", "AttachService", "AttachInstance"} : Go(o, s)
    BY <1>2 DEF MakeRole, Attach
  <2>2. Kept /\ UNCHANGED <<granted, env, queue, jobDef>>
    BY <1>2 DEF MakeRole, At, Kept
  <2>3. QED
    BY <2>1, <2>2, MakesSomething DEF DefRequest, Step, SetupInv, SetupType
<1>3. CASE AttachPolicy(o, r)
  <2>1. \E s \in {"failed", "GetInstanceRole", "CreateEnv"} : Go(o, s)
    BY <1>3 DEF AttachPolicy, RoleDone
  <2>2. Needed[r] \in SUBSET Policy
    BY DEF Needed, Role, Policy
  <2>3. granted' \in [Role -> SUBSET Policy] /\ granted'["job"] = granted["job"]
    BY <1>3, <2>2 DEF AttachPolicy, SetupInv, SetupType, Role
  <2>4. Kept /\ UNCHANGED <<env, queue, jobDef>>
    BY <1>3, <2>3 DEF AttachPolicy, At, Kept
  <2>5. QED
    BY <2>1, <2>3, <2>4, MakesSomething DEF DefRequest, Step, SetupInv, SetupType
<1>4. QED
  BY <1>1, <1>2, <1>3

(* The environment and the queue.                                          *)
LEMMA EnvStep ==
  ASSUME SetupInv, NEW o \in Operator,
         DescribeEnv(o) \/ CreateEnv(o) \/ DescribeQueue(o) \/ CreateQueue(o)
  PROVE  SetupInv'
<1>1. CASE DescribeEnv(o)
  <2>1. \E s \in {"DescribeQueue", "GetServiceRole", "failed"} : Go(o, s)
    BY <1>1 DEF DescribeEnv
  <2>2. UNCHANGED <<command, roleGiven, Made>>
    BY <1>1 DEF DescribeEnv, At
  <2>3. QED
    BY <2>1, <2>2, Looks DEF DefRequest, Step
<1>2. CASE CreateEnv(o)
  <2>1. \E s \in {"DescribeQueue", "failed"} : Go(o, s)
    BY <1>2 DEF CreateEnv
  <2>2. Kept /\ UNCHANGED <<granted, queue, jobDef>>
    BY <1>2 DEF CreateEnv, At, Kept
  <2>3. env' = env \/ (env = "none" /\ env' = "creating")
    BY <1>2 DEF CreateEnv
  <2>4. QED
    BY <2>1, <2>2, <2>3, MakesSomething DEF DefRequest, Step, SetupInv, SetupType
<1>3. CASE DescribeQueue(o)
  <2>1. \/ Go(o, "DescribeDef") /\ queue
        \/ Go(o, "CreateQueue")
    BY <1>3 DEF DescribeQueue
  <2>2. UNCHANGED <<command, roleGiven, Made>>
    BY <1>3 DEF DescribeQueue, At
  <2>3. QED
    BY <2>1, <2>2, Looks DEF DefRequest, Step
<1>4. CASE CreateQueue(o)
  <2>1. PICK s \in {"DescribeDef", "failed"} : Go(o, s) /\ (s = "DescribeDef" => env = "VALID" /\ queue')
    BY <1>4 DEF CreateQueue
  <2>2. UNCHANGED <<command, roleGiven, roles, granted, env, jobDef>>
    BY <1>4 DEF CreateQueue, At
  <2>3. queue' \in BOOLEAN /\ (queue => queue') /\ (queue' => queue \/ env = "VALID")
    BY <1>4 DEF CreateQueue
  <2>4. SetupType' /\ sstep'[o] = s
    BY <2>1, <2>2, <2>3 DEF SetupInv, SetupType, Go, Step
  <2>5. JobWhole' = JobWhole
    BY <2>2 DEF JobWhole, Whole
  <2>6. Earned(o)'
    BY <2>1, <2>4 DEF Earned, DefRequest
  <2>7. Kept /\ (queue' => env' = "VALID") /\ (jobDef' => JobWhole')
    BY <2>2, <2>3, <2>5 DEF Kept, SetupInv
  <2>8. QED
    BY <2>1, <2>4, <2>6, <2>7, OthersKeep DEF Step
<1>5. QED
  BY <1>1, <1>2, <1>3, <1>4

(* The job definition and its role.                                        *)
LEMMA JobRoleStep ==
  ASSUME SetupInv, NEW o \in Operator, DescribeDef(o) \/ CreateJobRole(o)
  PROVE  SetupInv'
<1> sstep[o] \in DefRequest => Earned(o) /\ (command[o] = "all" => queue)
  BY DEF SetupInv, Earned
<1>1. CASE DescribeDef(o)
  <2>1. \/ Go(o, "ok") /\ jobDef
        \/ Go(o, "RegisterDef") /\ roleGiven
        \/ Go(o, "GetJobRole")
    BY <1>1 DEF DescribeDef, GetRole
  <2>2. UNCHANGED <<command, roleGiven, Made>> /\ (command[o] = "all" => queue)
    BY <1>1 DEF DescribeDef, At, DefRequest
  <2>3. QED
    BY <2>1, <2>2, Looks DEF DefRequest, Step, JobWhole
<1>2. CASE LookForRole(o, "job")
  <2>1. \E s \in {"ListPolicies", "CreateJobRole"} : Go(o, s)
    BY <1>2 DEF LookForRole, RoleDone, CreateRole
  <2>2. UNCHANGED <<command, roleGiven, Made>> /\ (command[o] = "all" => queue)
    BY <1>2 DEF LookForRole, At, GetRole, DefRequest
  <2>3. QED
    BY <2>1, <2>2, Looks DEF DefRequest, Step
<1>3. CASE MakeRole(o, "job")
  <2>1. \E s \in {"failed", "ListPolicies"} : Go(o, s)
    BY <1>3 DEF MakeRole, RoleDone
  <2>2. /\ Kept /\ UNCHANGED <<granted, env, queue, jobDef>>
        /\ command[o] = "all" => queue
    BY <1>3 DEF MakeRole, At, Kept, CreateRole, DefRequest
  <2>3. QED
    BY <2>1, <2>2, MakesSomething DEF DefRequest, Step, SetupInv, SetupType
<1>4. QED
  BY <1>1, <1>2, <1>3 DEF CreateJobRole

(* The policies of the job's role, and the definition itself.              *)
LEMMA JobDefStep ==
  ASSUME SetupInv, NEW o \in Operator, AttachRolePolicies(o) \/ RegisterDef(o)
  PROVE  SetupInv'
<1> /\ Earned(o) /\ SetupType
    /\ sstep[o] \in DefRequest => (command[o] = "all" => queue)
  BY DEF SetupInv, Earned
<1>1. CASE ListPolicies(o)
  <2>1. \/ Go(o, "failed")
        \/ Go(o, "RegisterDef") /\ Whole("job")
        \/ Go(o, "PutS3")
    BY <1>1 DEF ListPolicies, HasPolicies, Whole, Needed, Role
  <2>2. UNCHANGED <<command, roleGiven, Made>> /\ (command[o] = "all" => queue)
    BY <1>1 DEF ListPolicies, At, DefRequest
  <2>3. QED
    BY <2>1, <2>2, Looks DEF DefRequest, Step, JobWhole
<1>2. ASSUME NEW p \in {"S3", "DynamoDB"}, PutPolicy(o, p)
      PROVE  SetupInv'
  <2>1. UNCHANGED <<command, roleGiven, env, queue, jobDef>> /\ (command[o] = "all" => queue)
    BY <1>2 DEF PutPolicy, At, DefRequest
  <2>2. /\ granted' \in [Role -> SUBSET Policy]
        /\ granted["job"] \subseteq granted'["job"]
    <3>1. \/ granted' = [granted EXCEPT !["job"] = @ \cup {p}]
          \/ granted' = granted
      BY <1>2 DEF PutPolicy
    <3>2. granted["job"] \cup {p} \in SUBSET Policy
      BY <1>2 DEF SetupType, Role, Policy
    <3>3. QED
      BY <3>1, <3>2 DEF SetupType, Role
  <2>3. PICK s \in {"failed", "PutDynamoDB", "RegisterDef"} :
          /\ Go(o, s)
          /\ s = "PutDynamoDB" => p = "S3" /\ "S3" \in granted'["job"]
          /\ s = "RegisterDef" => p = "DynamoDB" /\ "DynamoDB" \in granted'["job"]
    <3>1. PICK err \in BOOLEAN, applied \in BOOLEAN :
            /\ ~err => applied
            /\ granted' = IF applied THEN [granted EXCEPT !["job"] = @ \cup {p}] ELSE granted
            /\ Go(o, IF err THEN "failed" ELSE IF p = "S3" THEN "PutDynamoDB" ELSE "RegisterDef")
      BY <1>2 DEF PutPolicy
    <3>2. applied => p \in granted'["job"]
      BY <3>1 DEF SetupType, Role
    <3>3. CASE err
      <4>1. Go(o, "failed")
        BY <3>1, <3>3
      <4>2. QED
        BY <4>1
    <3>4. CASE ~err /\ p = "S3"
      <4>1. Go(o, "PutDynamoDB") /\ "S3" \in granted'["job"]
        BY <3>1, <3>2, <3>4
      <4>2. QED
        BY <3>4, <4>1
    <3>5. CASE ~err /\ p = "DynamoDB"
      <4>1. Go(o, "RegisterDef") /\ "DynamoDB" \in granted'["job"]
        BY <3>1, <3>2, <3>5
      <4>2. QED
        BY <3>5, <4>1
    <3>6. QED
      BY <1>2, <3>3, <3>4, <3>5
  <2>4. s = "RegisterDef" => Whole("job")'
    <3>1. s = "RegisterDef" => "S3" \in granted["job"]
      BY <1>2, <2>3 DEF PutPolicy, At, Earned
    <3>2. QED
      BY <2>2, <2>3, <3>1 DEF Whole, Needed, Role
  <2>5. SetupType' /\ sstep'[o] = s
    BY <2>1, <2>2, <2>3 DEF SetupType, Go, Step
  <2>6. JobWhole => JobWhole'
    BY <2>1, <2>2 DEF JobWhole, Whole
  <2>7. Earned(o)'
    BY <2>1, <2>3, <2>4, <2>5 DEF Earned, JobWhole
  <2>8. Kept /\ (queue' => env' = "VALID") /\ (jobDef' => JobWhole')
    BY <2>1, <2>2, <2>6 DEF Kept, SetupInv
  <2>9. QED
    BY <2>3, <2>5, <2>7, <2>8, OthersKeep DEF Step
<1>3. CASE RegisterDef(o)
  <2>1. /\ UNCHANGED <<command, roleGiven, granted, env, queue>>
        /\ (command[o] = "all" => queue) /\ JobWhole
    BY <1>3 DEF RegisterDef, At, DefRequest, Earned
  <2>2. PICK s \in {"failed", "ok"} : Go(o, s) /\ (s = "ok" => jobDef')
    BY <1>3 DEF RegisterDef
  <2>3. jobDef' \in BOOLEAN /\ (jobDef => jobDef')
    BY <1>3 DEF RegisterDef
  <2>4. SetupType' /\ sstep'[o] = s
    BY <2>1, <2>2, <2>3 DEF SetupType, Go, Step
  <2>5. JobWhole'
    BY <2>1 DEF JobWhole, Whole
  <2>6. Earned(o)'
    BY <2>1, <2>2, <2>4, <2>5 DEF Earned
  <2>7. Kept /\ (queue' => env' = "VALID") /\ (jobDef' => JobWhole')
    BY <2>1, <2>3, <2>5 DEF Kept, SetupInv
  <2>8. QED
    BY <2>2, <2>4, <2>6, <2>7, OthersKeep DEF Step
<1>4. QED
  BY <1>1, <1>2, <1>3 DEF AttachRolePolicies

(* A command that starts again, and the environment that settles.          *)
LEMMA RestStep ==
  ASSUME SetupInv, EnvSettles \/ \E o \in Operator : Rerun(o)
  PROVE  SetupInv'
<1>1. CASE EnvSettles
  <2>1. UNCHANGED <<command, roleGiven, sstep, granted, queue, jobDef>>
    BY <1>1 DEF EnvSettles
  <2>2. env = "creating" /\ env' \in {"VALID", "INVALID"}
    BY <1>1 DEF EnvSettles
  <2>3. SetupType' /\ (queue' => env' = "VALID")
    BY <2>1, <2>2 DEF SetupInv, SetupType
  <2>4. JobWhole' = JobWhole
    BY <2>1 DEF JobWhole, Whole
  <2>5. QED
    BY <2>1, <2>3, <2>4 DEF SetupInv, Earned
<1>2. ASSUME NEW o \in Operator, Rerun(o)
      PROVE  SetupInv'
  <2>1. \/ Go(o, "DescribeEnv")
        \/ Go(o, "DescribeDef") /\ command[o] # "all"
    BY <1>2 DEF Rerun, FirstRequest
  <2>2. UNCHANGED <<command, roleGiven, Made>>
    BY <1>2 DEF Rerun, At
  <2>3. QED
    BY <2>1, <2>2, Looks DEF DefRequest, Step
<1>3. QED
  BY <1>1, <1>2

(* However many operators run the commands side by side and however many   *)
(* requests fail, a command that returns without an error leaves a job     *)
(* definition with a role that has both policies and, for                  *)
(* create-all-resources, a queue on a VALID compute environment.           *)
THEOREM SetupCorrect == SetupSpec => []SetupIsWhole
<1>1. SetupInit => SetupInv
  <2> SUFFICES ASSUME SetupInit PROVE SetupInv
    OBVIOUS
  <2>1. SetupType
    BY DEF SetupInit, SetupType, FirstRequest, Step, Role
  <2>2. \A o \in Operator : Earned(o)
    BY DEF SetupInit, Earned, FirstRequest, DefRequest
  <2>3. QED
    BY <2>1, <2>2 DEF SetupInit, SetupInv
<1>2. SetupInv /\ [SetupNext]_setupVars => SetupInv'
  <2>1. ASSUME SetupInv, UNCHANGED setupVars PROVE SetupInv'
    BY <2>1 DEF setupVars, SetupInv, SetupType, Earned, JobWhole, Whole
  <2>2. ASSUME SetupInv, NEW o \in Operator, Request(o) PROVE SetupInv'
    BY <2>2, EnvRoleStep, EnvStep, JobRoleStep, JobDefStep
       DEF Request, ServiceRole, InstanceRole, CreateJobDefinition
  <2>3. QED
    BY <2>1, <2>2, RestStep DEF SetupNext
<1>3. SetupInv => SetupIsWhole
  BY DEF SetupInv, SetupIsWhole, Earned, JobWhole, DefRequest
<1>4. QED
  BY <1>1, <1>2, <1>3, PTL DEF SetupSpec

-----------------------------------------------------------------------------
(* The verdicts of the reconcilers.                                        *)

(* How far Submit is with a task.                                          *)
SubmitStage == {"none", "ready", "submitted", "error", "failed", "done"}

(* Where the process of a task's worker is.                                *)
WorkerPlace == {"none", "starting", "init", "run"} \cup Exits

(* Where the reconciler is, with what it holds of a listing.               *)
RecState ==
  [pc : {"list"}, at : 1..3]
    \cup [pc : {"map"}, at : 1..3, ids : SUBSET Task]
    \cup [pc : {"write"}, at : 1..3, todo : SUBSET Verdict]
    \cup [pc : {"remove"}, at : 1..3, id : Task, todo : SUBSET Verdict]

(* The values of the variables that the argument reads.                    *)
BatchType ==
  /\ state \in [Task -> State]
  /\ submit \in [Task -> SubmitStage]
  /\ number \in [Task -> JobNumber]
  /\ job \in [Task -> JobState]
  /\ worker \in [Task -> WorkerPlace]
  /\ DOMAIN recorded = Task
  /\ rec \in RecState

(* Where the callers of Cancel are.                                        *)
CancelType ==
  cancel \in [Canceler -> [pc : {"idle"}] \cup [pc : {"checked", "dispatch", "command"}, id : Task]]

(* A job is made once, by a task that exists, and only a running job has a *)
(* worker; Google Batch has none.                                          *)
JobsOnce ==
  \A t \in Task :
    /\ submit[t] = "ready" => state[t] # "UNKNOWN" /\ job[t] = "none"
    /\ job[t] # "none" => state[t] # "UNKNOWN"
    /\ worker[t] # "none" => job[t] = "running" /\ kind # "gcp"

(* An id in the metadata is the one of the task's job, if it is its number.*)
IdsOwn ==
  /\ \A t, u \in Task : number[t] = number[u] => t = u
  /\ \A t \in Task : recorded[t] \in {NoId, ExtractID(number[t])}

(* What a verdict of the reconciler claims of its job is true of that job, *)
(* given that the id it looked up is the task's own.                       *)
Holds(v) ==
  (kind = "htcondor" => OwnId(v.id)) =>
    /\ v.to = "SYSTEM_ERROR" /\ ~v.remove => job[v.id] \in Dead
    /\ v.to = "EXECUTOR_ERROR" => job[v.id] = "failed"
    /\ v.to = "COMPLETE" => job[v.id] = "succeeded"
    /\ v.to = "RUNNING" => job[v.id] \notin {"none"} \cup Waiting

(* Every verdict the reconciler still has to write holds.                  *)
RecInv ==
  /\ rec.pc # "list" => HasReconciler
  /\ rec.pc = "map" => \A t \in rec.ids : Key(t) # NoId
  /\ rec.pc \in {"write", "remove"} => \A v \in rec.todo : Holds(v)

(* The inductive invariant.                                                *)
BatchInv == BatchType /\ JobsOnce /\ IdsOwn /\ RecInv

(* What a job has come to cannot be undone.                                *)
JobsMoveOn ==
  \A t \in Task :
    /\ job[t] \in Dead \cup {"succeeded"} => job'[t] = job[t]
    /\ job[t] = "running" => job'[t] \notin {"none"} \cup Waiting

(* A verdict that holds goes on to hold as the jobs move on: what it       *)
(* claims is never undone by the batch system.                             *)
LEMMA HoldsOn ==
  ASSUME BatchInv, JobsMoveOn, UNCHANGED <<kind, number>>, NEW v \in Verdict, Holds(v), job' \in [Task -> JobState]
  PROVE  Holds(v)'
BY DEF JobsMoveOn, Holds, OwnId, ExtractID, Verdict, BatchInv, BatchType, JobState, Dead, Live, Waiting

(* What the batch system says of the job of a task is about that job.      *)
LEMMA SeenOwn ==
  ASSUME BatchInv, NEW t \in Task, Key(t) # NoId, kind = "htcondor" => OwnId(t)
  PROVE  Seen(t) = {job[t]}
<1>1. CASE kind = "gcp"
  <2>1. \A u \in Task : t \in {u, number[u]} <=> u = t
    BY JobAssumption DEF BatchInv, BatchType
  <2>2. QED
    BY <1>1, <2>1 DEF Seen, Key
<1>2. CASE kind # "gcp"
  <2>1. Key(t) = number[t]
    BY <1>2 DEF Key, BatchInv, IdsOwn, ExtractID, OwnId
  <2>2. \A u \in Task : number[t] \in {u, number[u]} <=> u = t
    BY JobAssumption DEF BatchInv, BatchType, IdsOwn
  <2>3. QED
    BY <2>1, <2>2 DEF Seen
<1>3. QED
  BY <1>1, <1>2

(* The verdicts drawn from a job's state, as seen in a listing or looked   *)
(* up, hold.                                                               *)
LEMMA JobStatesHold ==
  ASSUME BatchInv, HasReconciler, NEW t \in Task, Key(t) # NoId, NEW seen \in JobState, seen \in Seen(t),
         NEW shown \in Active, NEW v \in JobStates(t, seen, shown)
  PROVE  v \in Verdict /\ Holds(v)
<1>1. v.id = t /\ v \in Verdict
  <2>1. CASE kind = "gcp"
    <3>1. v \in GCPJobStates(t, seen, shown)
      BY <2>1 DEF JobStates
    <3>2. PICK to \in State : v = [id |-> t, to |-> to, remove |-> FALSE]
      BY <3>1 DEF GCPJobStates, State, Active, Terminal
    <3>3. QED
      BY <3>2 DEF Verdict
  <2>2. CASE kind # "gcp"
    <3>1. PICK b \in BOOLEAN : v = Fail(t, b)
      BY <2>2 DEF JobStates, SlurmMapStates, HTCondorMapStates, PBSMapStates, AWSJobStates, HasReconciler
    <3>2. QED
      BY <3>1 DEF Fail, Verdict, State, Terminal
  <2>3. QED
    BY <2>1, <2>2
<1>2. ASSUME kind = "htcondor" => OwnId(t) PROVE Holds(v)
  <2>1. seen = job[t]
    BY <1>2, SeenOwn
  <2>2. QED
    BY <1>1, <2>1 DEF Holds, JobStates, SlurmMapStates, HTCondorMapStates, PBSMapStates, AWSJobStates,
       GCPJobStates, Fail, HasReconciler, JobState, Dead, Live, Waiting, Active
<1>3. QED
  BY <1>1, <1>2 DEF Holds

(* A write of a state never makes a task unknown.                          *)
LEMMA WriteStep ==
  ASSUME BatchType, NEW t \in Task, NEW s \in State \ {"UNKNOWN"}, NEW err, MultiWrite(t, s, err)
  PROVE  state' \in [Task -> State] /\ \A u \in Task : state[u] # "UNKNOWN" => state'[u] # "UNKNOWN"
BY DEF MultiWrite, BatchType

(* The parts of the invariant that a step may leave alone.                 *)
LEMMA RecKept ==
  ASSUME BatchInv, JobsMoveOn, job' \in [Task -> JobState], UNCHANGED <<kind, number, rec>>,
         \A t \in Task : recorded[t] # NoId => recorded'[t] # NoId
  PROVE  RecInv'
<1>1. rec.pc = "map" => \A t \in rec.ids : t \in Task
  BY DEF BatchInv, BatchType, RecState
<1>2. rec.pc \in {"write", "remove"} => \A v \in rec.todo : v \in Verdict
  BY DEF BatchInv, BatchType, RecState
<1>3. HasReconciler' = HasReconciler
  BY DEF HasReconciler
<1>4. rec.pc = "map" => \A t \in rec.ids : Key(t)' # NoId
  BY <1>1 DEF BatchInv, RecInv, Key
<1>5. rec.pc \in {"write", "remove"} => \A v \in rec.todo : Holds(v)'
  BY <1>2, HoldsOn DEF BatchInv, RecInv
<1>6. QED
  BY <1>3, <1>4, <1>5 DEF BatchInv, RecInv

(* The ids stay the tasks' own as long as no id is recorded.               *)
LEMMA SameIds ==
  ASSUME BatchInv, UNCHANGED <<kind, number, recorded>>
  PROVE  IdsOwn'
BY DEF BatchInv, IdsOwn, ExtractID

(* Jobs that are left alone have moved on, in the weak sense.              *)
LEMMA JobsUnmoved ==
  ASSUME BatchType, UNCHANGED job PROVE JobsMoveOn /\ job' \in [Task -> JobState]
BY DEF JobsMoveOn, BatchType, Dead, Waiting

(* A step of the service, of a caller or of a goroutine that changes no    *)
(* job and starts no submission.                                           *)
LEMMA VerdictQuietStep ==
  ASSUME BatchInv, UNCHANGED <<kind, number, job, worker, recorded, rec>>,
         state' \in [Task -> State], submit' \in [Task -> SubmitStage],
         \A t \in Task : state[t] # "UNKNOWN" => state'[t] # "UNKNOWN",
         \A t \in Task : submit'[t] = "ready" => submit[t] = "ready" \/ (job[t] = "none" /\ state'[t] # "UNKNOWN")
  PROVE  BatchInv'
<1>1. BatchType'
  BY DEF BatchInv, BatchType
<1>2. JobsOnce'
  BY DEF BatchInv, JobsOnce
<1>3. IdsOwn'
  BY SameIds
<1>4. RecInv'
  BY JobsUnmoved, RecKept DEF BatchInv
<1>5. QED
  BY <1>1, <1>2, <1>3, <1>4 DEF BatchInv

(* A step that moves jobs on, and submits a job at most once, keeps the    *)
(* invariant.                                                              *)
LEMMA JobStep ==
  ASSUME BatchInv, JobsMoveOn, UNCHANGED <<kind, number, recorded, rec>>,
         state' \in [Task -> State], submit' \in [Task -> SubmitStage],
         job' \in [Task -> JobState], worker' \in [Task -> WorkerPlace],
         \A t \in Task : state[t] # "UNKNOWN" => state'[t] # "UNKNOWN",
         \A t \in Task : submit'[t] = "ready" => submit[t] = "ready" /\ job'[t] = job[t],
         \A t \in Task : job'[t] # "none" => job[t] # "none" \/ submit[t] = "ready",
         \A t \in Task : worker'[t] # "none" => job'[t] = "running" /\ kind # "gcp"
  PROVE  BatchInv'
<1>1. BatchType'
  BY DEF BatchInv, BatchType
<1>2. JobsOnce'
  BY DEF BatchInv, JobsOnce
<1>3. IdsOwn'
  BY SameIds
<1>4. RecInv'
  BY RecKept DEF BatchInv
<1>5. QED
  BY <1>1, <1>2, <1>3, <1>4 DEF BatchInv

(* CreateTask, and its failure, keep the invariant.                        *)
LEMMA ServiceStep ==
  ASSUME BatchInv, NEW t \in Task, Create(t) \/ Failed(t)
  PROVE  BatchInv'
<1>1. CASE Create(t)
  <2>1. state[t] = "UNKNOWN" /\ state' = [state EXCEPT ![t] = "QUEUED"]
        /\ \E s \in {"none", "ready"} : submit' = [submit EXCEPT ![t] = s]
    BY <1>1 DEF Create, CreateTask, SubmitGoto
  <2>2. job[t] = "none"
    BY <2>1 DEF BatchInv, JobsOnce
  <2>3. state' \in [Task -> State] /\ submit' \in [Task -> SubmitStage]
    BY <2>1 DEF BatchInv, BatchType, State, Active, SubmitStage
  <2>4. \A u \in Task : state[u] # "UNKNOWN" => state'[u] # "UNKNOWN"
    BY <2>1 DEF BatchInv, BatchType
  <2>5. \A u \in Task : submit'[u] = "ready" => submit[u] = "ready" \/ (job[u] = "none" /\ state'[u] # "UNKNOWN")
    BY <2>1, <2>2 DEF BatchInv, BatchType
  <2>6. QED
    BY <1>1, <2>3, <2>4, <2>5, VerdictQuietStep DEF Create, backendVars
<1>2. CASE Failed(t)
  <2>1. PICK err : MultiWrite(t, "SYSTEM_ERROR", err)
    BY <1>2 DEF Failed, SubmitFailed
  <2>2. state' \in [Task -> State] /\ \A u \in Task : state[u] # "UNKNOWN" => state'[u] # "UNKNOWN"
    BY <2>1, WriteStep DEF BatchInv, State, Terminal
  <2>3. submit' = [submit EXCEPT ![t] = "done"]
    BY <1>2 DEF Failed, SubmitFailed, SubmitGoto
  <2>4. QED
    BY <1>2, <2>2, <2>3, VerdictQuietStep DEF Failed, backendVars, BatchInv, BatchType, SubmitStage
<1>3. QED
  BY <1>1, <1>2

(* Every step of Submit keeps it.                                          *)
LEMMA SubmissionStep ==
  ASSUME BatchInv, NEW t \in Task, Submission(t)
  PROVE  BatchInv'
<1>1. CASE Submit(t)
  <2>1. submit[t] = "ready" /\ job[t] = "none" /\ worker[t] = "none" /\ UNCHANGED <<state, kind, number, recorded, rec>>
    BY <1>1 DEF Submit, BatchInv, JobsOnce
  <2>2. PICK p \in SubmitStage \ {"ready"} : submit' = [submit EXCEPT ![t] = p]
    BY <1>1 DEF Submit, HPCSubmit, AWSSubmit, GCPSubmit, LocalSubmit, TemplateFails, PathsRefused, ClientCall,
                SubmitGoto, SubmitStage
  <2>3. CASE UNCHANGED worker /\ (UNCHANGED job \/ job' = [job EXCEPT ![t] = "queued"])
    <3>1. JobsMoveOn /\ job' \in [Task -> JobState]
      BY <2>1, <2>3 DEF JobsMoveOn, BatchInv, BatchType, JobState, Live, Waiting, Dead
    <3>2. QED
      BY <2>1, <2>2, <2>3, <3>1, JobStep DEF BatchInv, BatchType, JobsOnce
  <2>4. CASE /\ kind = "local" /\ job' = [job EXCEPT ![t] = "running"]
             /\ worker' = [worker EXCEPT ![t] = "starting"]
    <3>1. JobsMoveOn /\ job' \in [Task -> JobState]
      BY <2>1, <2>4 DEF JobsMoveOn, BatchInv, BatchType, JobState, Live, Waiting, Dead
    <3>2. QED
      BY <2>1, <2>2, <2>4, <3>1, JobStep DEF BatchInv, BatchType, JobsOnce, WorkerPlace
  <2>5. QED
    BY <1>1, <2>3, <2>4 DEF Submit, HPCSubmit, AWSSubmit, GCPSubmit, LocalSubmit, TemplateFails, PathsRefused,
                            ClientCall, Enqueue, jobVars
<1>2. CASE SubmitError(t)
  <2>1. PICK err : MultiWrite(t, "SYSTEM_ERROR", err)
    BY <1>2 DEF SubmitError
  <2>2. state' \in [Task -> State] /\ \A u \in Task : state[u] # "UNKNOWN" => state'[u] # "UNKNOWN"
    BY <2>1, WriteStep DEF BatchInv, State, Terminal
  <2>3. QED
    BY <1>2, <2>2, VerdictQuietStep DEF SubmitError, SubmitGoto, jobVars, BatchInv, BatchType, SubmitStage
<1>3. CASE RecordJobID(t)
  <2>1. /\ recorded' = recorded \/ recorded' = WithId(t)
        /\ UNCHANGED <<state, kind, number, job, worker, rec>>
        /\ \E p \in {"done", "failed"} : submit' = [submit EXCEPT ![t] = p]
    BY <1>3 DEF RecordJobID, SubmitGoto, jobVars
  <2>2. BatchType'
    BY <2>1 DEF BatchInv, BatchType, WithId, SubmitStage
  <2>3. JobsOnce'
    BY <2>1 DEF BatchInv, BatchType, JobsOnce
  <2>4. IdsOwn'
    BY <2>1 DEF BatchInv, BatchType, IdsOwn, WithId, ExtractID
  <2>5. \A u \in Task : recorded[u] # NoId => recorded'[u] # NoId
    <3>1. number[t] \in Nat
      BY JobAssumption DEF BatchInv, BatchType
    <3>2. ExtractID(number[t]) # NoId
      BY <3>1 DEF ExtractID, NoId
    <3>3. QED
      BY <2>1, <3>2 DEF WithId, BatchInv, BatchType
  <2>6. RecInv'
    BY <2>1, <2>5, JobsUnmoved, RecKept DEF BatchInv
  <2>7. QED
    BY <2>2, <2>3, <2>4, <2>6 DEF BatchInv
<1>4. QED
  BY <1>1, <1>2, <1>3 DEF Submission

(* Every step of the batch system and the end of a worker keep it.         *)
LEMMA BatchStep ==
  ASSUME BatchInv, NEW t \in Task, Batch(t) \/ WorkerExits(t)
  PROVE  BatchInv'
<1>1. /\ UNCHANGED <<kind, number, recorded, rec, state, submit>>
      /\ \E s \in JobState \ {"none"} : job' = [job EXCEPT ![t] = s]
      /\ UNCHANGED worker \/ \E p \in WorkerPlace : worker' = [worker EXCEPT ![t] = p]
  BY DEF Batch, JobStarts, JobStuck, JobKilled, CommandsEnd, WorkerExits, JobGoto, WorkerGoto, envVars,
         JobState, Live, Dead, Waiting, WorkerPlace, Exits
<1>2. job[t] \in Live /\ (job[t] = "running" => job'[t] \in {"succeeded", "failed"})
  BY DEF Batch, JobStarts, JobStuck, JobKilled, CommandsEnd, WorkerExits, JobGoto, Live, Waiting,
         BatchInv, BatchType, JobsOnce, Exits
<1>3. worker'[t] # "none" => job'[t] = "running" /\ kind # "gcp"
  BY DEF Batch, JobStarts, JobStuck, JobKilled, CommandsEnd, WorkerExits, JobGoto, WorkerGoto,
         BatchInv, BatchType, JobsOnce
<1>4. JobsMoveOn
  BY <1>1, <1>2 DEF JobsMoveOn, BatchInv, BatchType, Live, Waiting, Dead
<1>5. job' \in [Task -> JobState] /\ worker' \in [Task -> WorkerPlace]
  BY <1>1 DEF BatchInv, BatchType
<1>6. submit[t] # "ready" /\ job[t] # "none"
  BY <1>2 DEF BatchInv, JobsOnce, Live, Waiting
<1>7. \A u \in Task : worker'[u] # "none" => job'[u] = "running" /\ kind # "gcp"
  BY <1>1, <1>3 DEF BatchInv, BatchType, JobsOnce
<1>8. QED
  BY <1>1, <1>4, <1>5, <1>6, <1>7, JobStep DEF BatchInv, BatchType

(* Every step of a worker keeps it.                                        *)
LEMMA WorkerKept ==
  ASSUME BatchInv, NEW t \in Task, WorkerStep(t)
  PROVE  BatchInv'
<1>1. worker[t] # "none" /\ UNCHANGED <<submit, kind, number, job, recorded, rec>>
  BY DEF WorkerStep, WorkerActs, WorkerStarts, WorkerRuns, WorkerEnds, WorkerPolls
<1>2. \E p \in WorkerPlace : worker' = [worker EXCEPT ![t] = p]
  BY DEF WorkerStep, WorkerActs, WorkerStarts, WorkerRuns, WorkerEnds, WorkerPolls, Report, WorkerGoto,
         ExitCodes, WorkerPlace, Exits
<1>3. UNCHANGED state \/ \E s \in State \ {"UNKNOWN"}, err \in BOOLEAN : MultiWrite(t, s, err)
  BY DEF WorkerStep, WorkerActs, WorkerStarts, WorkerRuns, WorkerEnds, WorkerPolls, Report, Write,
         State, Active, Terminal
<1>4. state' \in [Task -> State] /\ \A u \in Task : state[u] # "UNKNOWN" => state'[u] # "UNKNOWN"
  BY <1>3, WriteStep DEF BatchInv, BatchType
<1>5. QED
  BY <1>1, <1>2, <1>4, JobsUnmoved, JobStep DEF BatchInv, BatchType, JobsOnce

(* The cancel command moves the jobs that have the given number on.        *)
LEMMA RemoveStep ==
  ASSUME BatchInv, NEW n, Remove(n)
  PROVE  /\ JobsMoveOn /\ job' \in [Task -> JobState] /\ worker' \in [Task -> WorkerPlace]
         /\ \A t \in Task : job'[t] # "none" => job[t] # "none"
         /\ \A t \in Task : submit[t] = "ready" => job'[t] = job[t]
         /\ \A t \in Task : worker'[t] # "none" => job'[t] = "running" /\ kind # "gcp"
BY DEF Remove, JobsMoveOn, BatchInv, BatchType, JobsOnce, JobState, Live, Waiting, Dead, WorkerPlace

(* Every step of Cancel keeps the invariant.                               *)
LEMMA CancelStep ==
  ASSUME BatchInv, CancelType, NEW c \in Canceler, Cancel(c)
  PROVE  BatchInv'
<1>1. ASSUME NEW t \in Task, CancelRead(c, t), UNCHANGED backendVars PROVE BatchInv'
  BY <1>1, VerdictQuietStep DEF CancelRead, backendVars, BatchInv, BatchType
<1>2. CASE CancelWrite(c) /\ UNCHANGED backendVars
  <2>1. PICK err : MultiWrite(cancel[c].id, "CANCELED", err)
    BY <1>2 DEF CancelWrite
  <2>2. cancel[c].id \in Task /\ "CANCELED" \in State \ {"UNKNOWN"}
    BY <1>2 DEF CancelWrite, CancelType, State, Terminal
  <2>3. state' \in [Task -> State] /\ \A u \in Task : state[u] # "UNKNOWN" => state'[u] # "UNKNOWN"
    BY <2>1, <2>2, WriteStep DEF BatchInv
  <2>4. QED
    BY <1>2, <2>3, VerdictQuietStep DEF CancelWrite, backendVars, BatchInv, BatchType
<1>3. ASSUME UNCHANGED <<state, submit, kind, number, recorded, rec>>, UNCHANGED jobVars \/ \E n : Remove(n)
      PROVE  BatchInv'
  <2>1. CASE UNCHANGED jobVars
    BY <1>3, <2>1, VerdictQuietStep DEF jobVars, BatchInv, BatchType
  <2>2. ASSUME NEW n, Remove(n) PROVE BatchInv'
    BY <1>3, <2>2, RemoveStep, JobStep DEF BatchInv, BatchType
  <2>3. QED
    BY <1>3, <2>1, <2>2
<1>4. CASE CancelDispatch(c)
  BY <1>3, <1>4 DEF CancelDispatch, HPCCancel, AWSCancel, NoCancel
<1>5. CASE CancelCommand(c)
  BY <1>3, <1>5 DEF CancelCommand
<1>6. QED
  BY <1>1, <1>2, <1>4, <1>5 DEF Cancel

(* Where the reconciler goes between pages.                                *)
LEMMA NextPageType ==
  ASSUME NEW n \in 1..3
  PROVE  NextPage(n) \in [pc : {"list"}, at : 1..3] /\ Ticking \in [pc : {"list"}, at : 1..3]
BY DEF NextPage, Ticking

(* Back to a list, nothing is held.                                        *)
LEMMA ListJobsNext ==
  ASSUME rec' \in [pc : {"list"}, at : 1..3]
  PROVE  rec' \in RecState /\ RecInv'
BY DEF RecState, RecInv

(* To be written is what holds.                                            *)
LEMMA WriteNext ==
  ASSUME HasReconciler', NEW spot \in 1..3, NEW todo \in SUBSET Verdict, \A v \in todo : Holds(v)',
         \/ rec' = [pc |-> "write", at |-> spot, todo |-> todo]
         \/ \E t \in Task : rec' = [pc |-> "remove", at |-> spot, id |-> t, todo |-> todo]
  PROVE  rec' \in RecState /\ RecInv'
<1>1. rec' \in RecState
  <2>1. CASE rec' = [pc |-> "write", at |-> spot, todo |-> todo]
    <3>1. rec' \in [pc : {"write"}, at : 1..3, todo : SUBSET Verdict]
      BY <2>1
    <3>2. QED
      BY <3>1 DEF RecState
  <2>2. CASE \E t \in Task : rec' = [pc |-> "remove", at |-> spot, id |-> t, todo |-> todo]
    <3>1. PICK t \in Task : rec' = [pc |-> "remove", at |-> spot, id |-> t, todo |-> todo]
      BY <2>2
    <3>2. rec' \in [pc : {"remove"}, at : 1..3, id : Task, todo : SUBSET Verdict]
      BY <3>1
    <3>3. QED
      BY <3>2 DEF RecState
  <2>3. QED
    BY <2>1, <2>2
<1>2. rec'.pc \in {"write", "remove"} /\ rec'.todo = todo
  <2>1. CASE rec' = [pc |-> "write", at |-> spot, todo |-> todo]
    <3>1. rec'.pc = "write" /\ rec'.todo = todo
      BY <2>1
    <3>2. QED
      BY <3>1
  <2>2. CASE \E t \in Task : rec' = [pc |-> "remove", at |-> spot, id |-> t, todo |-> todo]
    <3>1. PICK t \in Task : rec' = [pc |-> "remove", at |-> spot, id |-> t, todo |-> todo]
      BY <2>2
    <3>2. rec'.pc = "remove" /\ rec'.todo = todo
      BY <3>1
    <3>3. QED
      BY <3>2
  <2>3. QED
    BY <2>1, <2>2
<1>3. QED
  BY <1>1, <1>2 DEF RecInv

(* Having turned a page of tasks into verdicts, the reconciler holds       *)
(* verdicts that are true.                                                 *)
LEMMA AfterMapStep ==
  ASSUME BatchInv, rec.pc = "map", NEW ids \in SUBSET rec.ids, AfterMap(ids),
         UNCHANGED <<job, kind, number, recorded>>
  PROVE  rec' \in RecState /\ RecInv'
<1>1. rec \in [pc : {"map"}, at : 1..3, ids : SUBSET Task] /\ HasReconciler
  BY DEF BatchInv, BatchType, RecState, RecInv
<1>2. PICK seen \in [ids -> JobState] :
        LET todo == UNION {JobStates(t, seen[t], Listed[rec.at]) : t \in ids}
        IN  /\ \A t \in ids : seen[t] \in Seen(t)
            /\ rec' = IF todo = {} THEN NextPage(rec.at) ELSE [pc |-> "write", at |-> rec.at, todo |-> todo]
  BY DEF AfterMap
<1>3. PICK todo : todo = UNION {JobStates(t, seen[t], Listed[rec.at]) : t \in ids}
  OBVIOUS
<1>4. Listed[rec.at] \in Active
  BY <1>1 DEF Listed, Active
<1>5. \A v \in todo : v \in Verdict /\ Holds(v)
  <2>1. ASSUME NEW v \in todo PROVE v \in Verdict /\ Holds(v)
    <3>1. PICK t \in ids : v \in JobStates(t, seen[t], Listed[rec.at])
      BY <1>3, <2>1
    <3>2. t \in Task /\ Key(t) # NoId /\ seen[t] \in JobState /\ seen[t] \in Seen(t)
      BY <1>1, <1>2, <3>1 DEF BatchInv, RecInv
    <3>3. QED
      BY <1>1, <1>4, <3>1, <3>2, JobStatesHold
  <2>2. QED
    BY <2>1
<1>6. HasReconciler' /\ \A v \in todo : Holds(v)'
  BY <1>1, <1>5 DEF HasReconciler, Holds, OwnId, ExtractID
<1>7. CASE todo = {}
  BY <1>1, <1>2, <1>3, <1>7, NextPageType, ListJobsNext
<1>8. CASE todo # {}
  <2>1. rec' = [pc |-> "write", at |-> rec.at, todo |-> todo] /\ todo \in SUBSET Verdict /\ rec.at \in 1..3
    BY <1>1, <1>2, <1>3, <1>5, <1>8
  <2>2. QED
    BY <1>6, <2>1, WriteNext
<1>9. QED
  BY <1>7, <1>8

(* A step of the reconciler that changes no job.                           *)
LEMMA RecQuiet ==
  ASSUME BatchInv, UNCHANGED <<submit, kind, number, job, worker, recorded>>, state' \in [Task -> State],
         \A t \in Task : state[t] # "UNKNOWN" => state'[t] # "UNKNOWN", rec' \in RecState, RecInv'
  PROVE  BatchInv'
<1>1. BatchType' /\ JobsOnce'
  BY DEF BatchInv, BatchType, JobsOnce
<1>2. QED
  BY <1>1, SameIds DEF BatchInv

(* Having written one verdict, it holds the others.                        *)
LEMMA AfterWriteStep ==
  ASSUME BatchInv, rec.pc = "write", NEW v \in rec.todo, rec' = AfterWrite(v),
         UNCHANGED <<job, kind, number>>
  PROVE  rec' \in RecState /\ RecInv'
<1>1. rec \in [pc : {"write"}, at : 1..3, todo : SUBSET Verdict] /\ HasReconciler
  BY DEF BatchInv, BatchType, RecState, RecInv
<1>2. v.id \in Task /\ rec.todo \ {v} \in SUBSET Verdict /\ rec.at \in 1..3
  BY <1>1 DEF Verdict
<1>3. HasReconciler' /\ \A w \in rec.todo \ {v} : Holds(w)'
  BY <1>1 DEF HasReconciler, Holds, OwnId, ExtractID, BatchInv, RecInv
<1>4. [rec EXCEPT !.todo = @ \ {v}] = [pc |-> "write", at |-> rec.at, todo |-> rec.todo \ {v}]
  BY <1>1
<1>5. QED
  BY <1>2, <1>3, <1>4, NextPageType, ListJobsNext, WriteNext DEF AfterWrite

(* Every step of the reconciler keeps the invariant.                       *)
LEMMA ReconcileStep ==
  ASSUME BatchInv, Reconcile
  PROVE  BatchInv'
<1>1. rec.at \in 1..3 /\ state \in [Task -> State]
  BY DEF BatchInv, BatchType, RecState
<1>2. CASE RecList
  <2>1. UNCHANGED <<submit, kind, number, job, worker, recorded, state>> /\ HasReconciler
    BY <1>2 DEF RecList, recVars, jobVars
  <2>2. PICK ids \in SUBSET {t \in Task : state[t] = Listed[rec.at] /\ Key(t) # NoId} :
          rec' = IF ids = {} THEN NextPage(rec.at) ELSE [pc |-> "map", at |-> rec.at, ids |-> ids]
    BY <1>2 DEF RecList
  <2>3. CASE rec' = NextPage(rec.at)
    BY <1>1, <2>1, <2>3, NextPageType, ListJobsNext, RecQuiet
  <2>4. CASE rec' = [pc |-> "map", at |-> rec.at, ids |-> ids]
    <3>1. rec' \in RecState
      BY <1>1, <2>4 DEF RecState
    <3>2. RecInv'
      BY <2>1, <2>4 DEF RecInv, HasReconciler, Key
    <3>3. QED
      BY <1>1, <2>1, <3>1, <3>2, RecQuiet
  <2>5. QED
    BY <2>2, <2>3, <2>4
<1>3. CASE RecMap
  <2>1. UNCHANGED <<submit, kind, number, job, worker, recorded, state>>
    BY <1>3 DEF RecMap, recVars, jobVars
  <2>2. QED
    BY <1>1, <1>3, <2>1, AfterMapStep, RecQuiet DEF RecMap
<1>4. CASE RecFails
  <2>1. UNCHANGED <<submit, kind, number, job, worker, recorded, state>>
    BY <1>4 DEF RecFails, recVars, jobVars
  <2>2. CASE rec' = Ticking
    BY <1>1, <2>1, <2>2, NextPageType, ListJobsNext, RecQuiet
  <2>3. CASE rec.pc = "map" /\ \E seen \in SUBSET rec.ids : AfterMap(seen)
    BY <1>1, <2>1, <2>3, AfterMapStep, RecQuiet
  <2>4. QED
    BY <1>4, <2>2, <2>3 DEF RecFails
<1>5. CASE RecWrite
  <2>1. UNCHANGED <<submit, kind, number, job, worker, recorded>> /\ rec.pc = "write"
    BY <1>5 DEF RecWrite, recVars, jobVars
  <2>2. PICK v \in rec.todo :
          /\ state' = IF Accepts(state[v.id], v.to) THEN [state EXCEPT ![v.id] = v.to] ELSE state
          /\ rec' = AfterWrite(v)
    BY <1>5 DEF RecWrite
  <2>3. v \in Verdict
    BY <2>1 DEF BatchInv, BatchType, RecState
  <2>4. rec' \in RecState /\ RecInv'
    BY <2>1, <2>2, AfterWriteStep
  <2>5. \A t \in Task : state[t] # "UNKNOWN" => state'[t] # "UNKNOWN"
    BY <1>1, <2>2, <2>3 DEF Accepts, TransitionAllowed, ValidateTransition, TerminalState, Terminal, Verdict
  <2>6. QED
    BY <1>1, <2>1, <2>2, <2>3, <2>4, <2>5, RecQuiet DEF Verdict
<1>6. CASE RecWriteLost
  <2>1. UNCHANGED <<submit, kind, number, job, worker, recorded, state>> /\ rec.pc = "write"
    BY <1>6 DEF RecWriteLost, recVars, jobVars
  <2>2. QED
    BY <1>1, <1>6, <2>1, AfterWriteStep, RecQuiet DEF RecWriteLost
<1>7. CASE RecRemove
  <2>1. UNCHANGED <<submit, kind, number, recorded, state>> /\ rec.pc = "remove"
    BY <1>7 DEF RecRemove, recVars
  <2>2. /\ rec \in [pc : {"remove"}, at : 1..3, id : Task, todo : SUBSET Verdict] /\ HasReconciler
    BY <2>1 DEF BatchInv, BatchType, RecState, RecInv
  <2>3. UNCHANGED jobVars \/ \E n : Remove(n)
    BY <1>7 DEF RecRemove
  <2>4. /\ JobsMoveOn /\ job' \in [Task -> JobState] /\ worker' \in [Task -> WorkerPlace]
        /\ \A t \in Task : job'[t] # "none" => job[t] # "none"
        /\ \A t \in Task : submit[t] = "ready" => job'[t] = job[t]
        /\ \A t \in Task : worker'[t] # "none" => job'[t] = "running" /\ kind # "gcp"
    BY <2>3, JobsUnmoved, RemoveStep DEF jobVars, BatchInv, BatchType, JobsOnce
  <2>5. HasReconciler' /\ \A v \in rec.todo : Holds(v)'
    BY <2>1, <2>2, <2>4, HoldsOn DEF HasReconciler, BatchInv, RecInv
  <2>6. rec' \in RecState /\ RecInv'
    BY <1>7, <2>2, <2>5, NextPageType, ListJobsNext, WriteNext DEF RecRemove
  <2>7. BatchType' /\ JobsOnce'
    BY <2>1, <2>4, <2>6 DEF BatchInv, BatchType, JobsOnce
  <2>8. QED
    BY <2>1, <2>6, <2>7, SameIds DEF BatchInv
<1>8. QED
  BY <1>2, <1>3, <1>4, <1>5, <1>6, <1>7 DEF Reconcile

(* So does a restart of the server, which forgets the listing.             *)
LEMMA RestartStep ==
  ASSUME BatchInv, Restart
  PROVE  BatchInv'
<1>1. /\ UNCHANGED <<state, kind, number, recorded>> /\ rec' = Ticking
      /\ submit' = [t \in Task |-> IF submit[t] = "none" THEN "none" ELSE "done"]
  BY DEF Restart
<1>2. \/ UNCHANGED <<job, worker>>
      \/ /\ job' = [t \in Task |-> IF job[t] = "running" THEN "failed" ELSE job[t]]
         /\ worker' = [t \in Task |-> "none"]
  BY DEF Restart, jobVars
<1>3. rec' \in RecState /\ RecInv'
  BY <1>1, NextPageType, ListJobsNext
<1>4. BatchType'
  BY <1>1, <1>2, <1>3 DEF BatchInv, BatchType, SubmitStage, JobState, Live, Waiting, Dead, WorkerPlace
<1>5. JobsOnce'
  BY <1>1, <1>2 DEF BatchInv, BatchType, JobsOnce
<1>6. QED
  BY <1>1, <1>3, <1>4, <1>5, SameIds DEF BatchInv

(* Every step keeps the type of the callers of Cancel.                     *)
LEMMA CancelTypeStep ==
  ASSUME CancelType, [Next]_vars
  PROVE  CancelType'
<1>1. ASSUME NEW c \in Canceler, Cancel(c) PROVE CancelType'
  <2>1. ASSUME NEW t \in Task, CancelRead(c, t) PROVE CancelType'
    BY <2>1 DEF CancelRead, CancelGoto, CancelType
  <2>2. CASE CancelWrite(c)
    BY <2>2 DEF CancelWrite, CancelGoto, CancelType, Idle
  <2>3. CASE CancelDispatch(c)
    BY <2>3 DEF CancelDispatch, HPCCancel, AWSCancel, NoCancel, CancelGoto, CancelType, Idle
  <2>4. CASE CancelCommand(c)
    BY <2>4 DEF CancelCommand, CancelGoto, CancelType, Idle
  <2>5. QED
    BY <1>1, <2>1, <2>2, <2>3, <2>4 DEF Cancel
<1>2. CASE Restart
  BY <1>2 DEF Restart, CancelType, Idle
<1>3. ASSUME NEW t \in Task, Create(t) \/ Failed(t) \/ Submission(t) \/ Batch(t) \/ WorkerStep(t) \/ WorkerExits(t)
      PROVE  UNCHANGED cancel
  BY <1>3 DEF Create, CreateTask, Failed, SubmitFailed, Submission, Submit, SubmitError, RecordJobID, Batch,
              JobStarts, JobStuck, JobKilled, CommandsEnd, WorkerStep, WorkerActs, WorkerExits, envVars
<1>4. CASE Reconcile
  BY <1>4 DEF Reconcile, RecList, RecMap, RecFails, RecWrite, RecWriteLost, RecRemove, recVars, CancelType
<1>5. CASE UNCHANGED vars
  BY <1>5 DEF vars, serviceVars, CancelType
<1>6. QED
  BY <1>1, <1>2, <1>3, <1>4, <1>5 DEF Next, CancelType

(* A verdict that the reconciler of Slurm, HTCondor, PBS, AWS Batch or     *)
(* Google Batch drew from a list of tasks and a list of jobs still is the  *)
(* truth about the task's job when it is written, though both lists are    *)
(* old by then: VerdictsHold, for any number of tasks, cancels, restarts   *)
(* and failed commands (reconcile, Reconcile, MapStates).                  *)
THEOREM VerdictsCorrect == Spec => []VerdictsHold
<1>1. Init => BatchInv /\ CancelType
  <2> SUFFICES ASSUME Init PROVE BatchInv /\ CancelType
    OBVIOUS
  <2>1. BatchType
    <3>0. rec = Ticking
      BY DEF Init
    <3>1. rec \in RecState
      BY <3>0 DEF RecState, Ticking
    <3>2. state \in [Task -> State] /\ submit \in [Task -> SubmitStage]
      BY DEF Init, ServiceInit, State, SubmitStage
    <3>3. number \in [Task -> JobNumber] /\ job \in [Task -> JobState] /\ DOMAIN recorded = Task
      BY DEF Init, JobState
    <3>4. worker \in [Task -> WorkerPlace]
      BY DEF Init, WorkerInit, WorkerPlace
    <3>5. QED
      BY <3>1, <3>2, <3>3, <3>4 DEF BatchType
  <2>2. JobsOnce /\ IdsOwn /\ CancelType
    BY DEF Init, ServiceInit, WorkerInit, JobsOnce, IdsOwn, CancelType, Idle
  <2>3. RecInv
    BY DEF Init, RecInv, Ticking
  <2>4. QED
    BY <2>1, <2>2, <2>3 DEF BatchInv
<1>2. BatchInv /\ CancelType /\ [Next]_vars => BatchInv' /\ CancelType'
  <2> SUFFICES ASSUME BatchInv, CancelType, [Next]_vars PROVE BatchInv'
    BY CancelTypeStep
  <2>1. CASE UNCHANGED vars
    BY <2>1, VerdictQuietStep DEF vars, serviceVars, BatchInv, BatchType
  <2>2. QED
    BY <2>1, ServiceStep, SubmissionStep, BatchStep, WorkerKept, CancelStep, ReconcileStep, RestartStep DEF Next
<1>3. BatchInv => VerdictsHold
  BY DEF BatchInv, RecInv, Holds, VerdictsHold
<1>4. QED
  BY <1>1, <1>2, <1>3, PTL DEF Spec

-----------------------------------------------------------------------------
(* The job and the pod of a run.                                           *)

(* The values the variables of the Kubernetes executor take.               *)
PodType ==
  /\ storedJob \in {"none", "old", "deleting", "new"}
  /\ pods \in [Pod -> PodStage]
  /\ own \in Ended \cup {"none"}
  /\ at \in {"create", "delete", "deleting", "recreate", "open", "watch", "logs", "returned"}
  /\ unseen \in Seq(PodStage)

(* The pod of the older job is gone with it, unless Stop deleted that job; *)
(* what the watch delivers of an end is then the end of the own pod.       *)
PodInv ==
  /\ PodType
  /\ own # "none" => pods["new"] \in Ended \cup {"gone"}
  /\ pods["new"] \in Ended => own = pods["new"]
  /\ at \in {"create", "delete", "deleting", "recreate"} => pods["new"] = "none" /\ storedJob # "new"
  /\ ~stopped =>
       /\ storedJob \in {"none", "new"} => pods["old"] \in {"none", "gone"}
       /\ at \in {"open", "watch", "logs"} => storedJob = "new"
       /\ \A k \in 1..Len(unseen) : unseen[k] \in Ended => unseen[k] = own
       /\ at \in {"logs", "returned"} /\ answer \in Ended => answer = own

(* Opening the watch, as newPodWatcher does, leaves a list of events in    *)
(* which every end of a pod is the end of the own pod: the older pod was   *)
(* gone before.                                                            *)
LEMMA OpenStep ==
  ASSUME PodInv, NEW v, Open(v), UNCHANGED <<kube, stopped>>,
         ~stopped => at = "watch" \/ at = "open"
  PROVE  /\ unseen' \in Seq(PodStage)
         /\ ~stopped => \A k \in 1..Len(unseen') : unseen'[k] \in Ended => unseen'[k] = own
<1>1. Announced("old") \in Seq(PodStage) /\ Announced("new") \in Seq(PodStage)
  BY DEF Announced, PodInv, PodType, Pod
<1>2. unseen' \in Seq(PodStage)
  BY <1>1 DEF Open, PodInv, PodType
<1>3. ASSUME ~stopped, ~v PROVE \A k \in 1..Len(unseen') : unseen'[k] \in Ended => unseen'[k] = own
  <2>1. Announced("old") = <<>>
    BY <1>3 DEF Announced, PodInv, PodType
  <2>2. unseen' = Announced("new")
    BY <1>1, <1>3, <2>1 DEF Open
  <2>3. QED
    BY <2>2 DEF Announced, PodInv, PodType
<1>4. QED
  BY <1>2, <1>3 DEF Open, PodInv

(* A change of one pod that is recorded in an open watch keeps the         *)
(* invariant.                                                              *)
LEMMA ChangeStep ==
  ASSUME PodInv, NEW p \in Pod, NEW s \in PodStage, Change(p, s),
         pods[p] \notin Ended \cup {"gone"} \/ s = "gone",
         pods[p] # "gone",
         UNCHANGED <<storedJob, at, answer, stopped>>,
         p = "old" /\ ~stopped => storedJob \notin {"none", "new"} \/ s = "gone",
         p = "new" => at \notin {"create", "delete", "deleting", "recreate"}
  PROVE  PodInv'
<1>1. PodType'
  BY DEF Change, PodInv, PodType, Ended, Pod, PodStage
<1>2. own' # "none" => pods'["new"] \in Ended \cup {"gone"}
  BY DEF Change, PodInv, PodType, Ended, Pod, PodStage
<1>3. pods'["new"] \in Ended => own' = pods'["new"]
  BY DEF Change, PodInv, PodType, Ended, Pod, PodStage
<1>4. at \in {"create", "delete", "deleting", "recreate"} => pods'["new"] = "none" /\ storedJob' # "new"
  BY DEF Change, PodInv, PodType, Pod
<1>5. own # "none" => own' = own
  BY DEF Change, PodInv, PodType, Ended
<1>6. ASSUME ~stopped PROVE \A k \in 1..Len(unseen') : unseen'[k] \in Ended => unseen'[k] = own'
  <2>1. ASSUME NEW k \in 1..Len(unseen), unseen[k] \in Ended PROVE unseen[k] = own'
    BY <1>5, <1>6, <2>1 DEF PodInv, Ended
  <2>2. p = "new" /\ s \in Ended => s = own'
    BY DEF Change
  <2>3. p = "old" => s \notin Ended \/ at # "watch"
    BY <1>6 DEF PodInv, Ended
  <2>4. QED
    BY <2>1, <2>2, <2>3 DEF Change, PodInv, PodType, Pod
<1>7. QED
  BY <1>1, <1>2, <1>3, <1>4, <1>5, <1>6 DEF PodInv, PodType, Change, Pod, Ended

(* Success or failure, as Run reports it, is what happened to the pod of   *)
(* its own job and not to that of an older job of the same name, as long   *)
(* as no Stop deletes the job under it: AnswerIsOwn (deleteJob,            *)
(* waitForPodFinish).                                                      *)
THEOREM PodCorrect == PodSpec => []AnswerIsOwn
<1>1. PodInit => PodInv
  BY DEF PodInit, PodInv, PodType, Pod, PodStage, Ended
<1>2. PodInv /\ [PodNext]_podVars => PodInv'
  <2> SUFFICES ASSUME PodInv, [PodNext]_podVars PROVE PodInv'
    OBVIOUS
  <2>1. CASE CreateJob
    BY <2>1 DEF CreateJob, Returns, watching, PodInv, PodType, Ended
  <2>2. CASE DeleteJob
    BY <2>2 DEF DeleteJob, watching, PodInv, PodType, Ended
  <2>3. CASE JobDeleted
    BY <2>3 DEF JobDeleted, kube, watching, PodInv, PodType, Ended
  <2>4. CASE RecreateJob
    BY <2>4 DEF RecreateJob, Returns, watching, PodInv, PodType, Ended
  <2>5. CASE StartWatch
    <3>1. CASE at' = "watch" /\ Open(FALSE) /\ UNCHANGED answer
      BY <2>5, <3>1, OpenStep DEF StartWatch, kube, PodInv, PodType, Ended
    <3>2. CASE Returns("system") /\ UNCHANGED unseen
      BY <2>5, <3>2 DEF StartWatch, kube, Returns, PodInv, PodType, Ended
    <3>3. QED
      BY <2>5, <3>1, <3>2 DEF StartWatch
  <2>6. CASE Reopen \/ Expire
    <3>1. at = "watch" /\ UNCHANGED <<kube, stopped>>
      BY <2>6 DEF Reopen, Expire
    <3>2. CASE (Open(version) \/ Open(FALSE)) /\ UNCHANGED <<at, answer>>
      BY <3>1, <3>2, OpenStep DEF kube, PodInv, PodType, Ended
    <3>3. CASE Returns("system") /\ UNCHANGED unseen
      BY <3>1, <3>3 DEF kube, Returns, PodInv, PodType, Ended
    <3>4. QED
      BY <2>6, <3>2, <3>3 DEF Reopen, Expire
  <2>7. CASE PodEvent
    <3>1. at = "watch" /\ unseen # <<>> /\ unseen' = Tail(unseen) /\ UNCHANGED <<kube, stopped>>
      BY <2>7 DEF PodEvent
    <3>2. Head(unseen) \in PodStage /\ unseen' \in Seq(PodStage)
      BY <3>1 DEF PodInv, PodType
    <3>3. ~stopped /\ Head(unseen) \in Ended => Head(unseen) = own
      BY <3>1 DEF PodInv, PodType
    <3>4. ~stopped => \A k \in 1..Len(unseen') : unseen'[k] \in Ended => unseen'[k] = own
      BY <3>1 DEF PodInv, PodType
    <3>5. \/ at' = "logs" /\ answer' = Head(unseen)
          \/ at' = "returned" /\ answer' = "system"
          \/ UNCHANGED <<at, answer>>
      BY <2>7 DEF PodEvent, Handle, Returns
    <3>6. QED
      BY <3>1, <3>2, <3>3, <3>4, <3>5 DEF kube, PodInv, PodType, Ended
  <2>8. CASE NeverAppears
    BY <2>8 DEF NeverAppears, Returns, kube, PodInv, PodType, Ended
  <2>9. CASE ReadResult
    BY <2>9 DEF ReadResult, Returns, kube, PodInv, PodType, Ended
  <2>10. CASE Stop
    BY <2>10 DEF Stop, watching, PodInv, PodType
  <2>11. CASE PodComes
    BY <2>11, ChangeStep DEF PodComes, PodInv, Pod, PodStage, Ended
  <2>12. CASE JobGoes
    BY <2>12 DEF JobGoes, watching, PodInv, PodType, Ended
  <2>13. ASSUME NEW p \in Pod, PodMoves(p) PROVE PodInv'
    <3>1. PICK s \in PodStage :
            /\ pods[p] \in {"pending", "inited", "running"}
            /\ Change(p, s)
      BY <2>13 DEF PodMoves
    <3>2. UNCHANGED <<storedJob, at, answer, stopped>>
      BY <2>13 DEF PodMoves
    <3>3. QED
      BY <3>1, <3>2, ChangeStep DEF PodInv, Pod, Ended
  <2>14. ASSUME NEW p \in Pod, PodGoes(p) PROVE PodInv'
    BY <2>14, ChangeStep DEF PodGoes, PodInv, Pod, PodStage
  <2>15. CASE UNCHANGED podVars
    BY <2>15 DEF podVars, PodInv, PodType
  <2>16. QED
    BY <2>1, <2>2, <2>3, <2>4, <2>5, <2>6, <2>7, <2>8, <2>9, <2>10, <2>11, <2>12, <2>13, <2>14, <2>15
    DEF PodNext, KubeRun
<1>3. PodInv => AnswerIsOwn
  BY DEF PodInv, AnswerIsOwn
<1>4. QED
  BY <1>1, <1>2, <1>3, PTL DEF PodSpec
=============================================================================

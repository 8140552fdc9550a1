----------------------------- MODULE ServerStart -----------------------------
(* From the start of "funnel server run" to its end, for servers that      *)
(* share one database: NewServer opens the database, creates what it needs *)
(* there (Init of each database), opens the event writers and the compute  *)
(* backend; Serve listens, answers calls and stops.  A supervisor outside  *)
(* of the repository starts a server that exited again.                    *)
EXTENDS Naturals, Sequences, FiniteSets, Functions

CONSTANTS Servers,      \* the processes that use the database
          MaxListenTries,     \* util.NewRetrier: calls of the function retried
          MaxOutages    \* bound on failed calls, taken ports and crashes

VARIABLES conf,     \* [database, compute]: the configuration they share
          made,     \* what exists in the database service
          active,   \* the tables of DynamoDB that are ACTIVE
          holder,   \* the servers that hold the file lock of the database
          phase,    \* server -> where it is
          next,     \* server -> index of the object it is about to make
          found,    \* server -> the objects its last lookup returned
          tries,    \* server -> tries of Init so far (Postgres)
          call,     \* server -> the call it is answering
          asked,    \* the servers that were told to stop
          cut,      \* server -> the kind of call that its end cut off
          torn,     \* ghost: an index whose maker went away before making it
          outages

startVars == <<conf, made, active, holder, phase, next, found, tries, call, asked,
               cut, torn, outages>>

Databases == {"boltdb", "badger", "datastore", "dynamodb", "elastic", "mongodb", "postgres"}

(* The databases that are files, which one process at a time may open.     *)
Embedded == {"boltdb", "badger"}

(* NewServer: the databases that are also node store and task queue.       *)
Schedulers == {"boltdb", "elastic", "mongodb", "postgres"}

(* What Init makes, in its order.                                          *)
Objects ==
  [boltdb    |-> <<"buckets">>,
   badger    |-> << >>,
   datastore |-> << >>,
   dynamodb  |-> <<"task", "content", "stdout", "stderr", "syslogs">>,
   elastic   |-> <<"tasks", "nodes">>,
   mongodb   |-> <<"tasks", "tasks index", "nodes", "nodes index">>,
   postgres  |-> <<"role", "database", "grant", "tasks", "nodes", "indices">>]

Wanted == Objects[conf.database]

Admin == {"role", "database", "grant"}

Index == {"tasks index", "nodes index"}

Nobody == "none"

-----------------------------------------------------------------------------

Fresh(stopped) ==
  /\ made = {} /\ active = {} /\ holder = {}
  /\ phase = [s \in Servers |-> "down"]
  /\ next = [s \in Servers |-> 1]
  /\ found = [s \in Servers |-> {}]
  /\ tries = [s \in Servers |-> 0]
  /\ call = [s \in Servers |-> Nobody]
  /\ asked = stopped
  /\ cut = [s \in Servers |-> Nobody]
  /\ torn = {}
  /\ outages = 0

StartInit ==
  /\ conf \in [database : Databases, compute : {"manual", "noop"}]
  /\ Fresh({})

(* The servers were told to stop before they opened anything.              *)
StartOver ==
  /\ conf = [database |-> "boltdb", compute |-> "noop"]
  /\ Fresh(Servers)

Goto(s, p) == phase' = [phase EXCEPT ![s] = p]

(* The index that a server would have made next.                           *)
TornBy(s) ==
  {o \in Index : phase[s] = "make" /\ next[s] <= Len(Wanted) /\ o = Wanted[next[s]]}

(* What a process knew of the database, which is of no use any more.       *)
ForgetAll(s) ==
  /\ next' = [next EXCEPT ![s] = 1]
  /\ found' = [found EXCEPT ![s] = {}]
  /\ tries' = [tries EXCEPT ![s] = 0]

(* The process ends: its locks are released, the call it was answering is  *)
(* cut off.                                                                *)
Exit(s) ==
  /\ phase' = [phase EXCEPT ![s] = "down"]
  /\ cut' = [cut EXCEPT ![s] = IF call[s] = Nobody THEN @ ELSE call[s]]
  /\ call' = [call EXCEPT ![s] = Nobody]
  /\ holder' = holder \ {s}
  /\ torn' = torn \cup TornBy(s)
  /\ ForgetAll(s)
  /\ UNCHANGED <<conf, made, active, asked>>

StartServer(s) ==
  /\ phase[s] = "down" /\ s \notin asked
  /\ Goto(s, "open")
  /\ cut' = [cut EXCEPT ![s] = Nobody]
  /\ tries' = [tries EXCEPT ![s] = 1]
  /\ UNCHANGED <<conf, made, active, holder, next, found, call, asked, torn, outages>>

(* NewServer, the switch on the database.  The clients of the services     *)
(* connect lazily; bolt.Open waits for the lock of the file for 5 seconds. *)
OpenDatabase(s) ==
  /\ phase[s] = "open"
  /\ IF conf.database \in Embedded /\ holder # {}
     THEN Exit(s)
     ELSE /\ Goto(s, "look")
          /\ holder' = IF conf.database \in Embedded THEN {s} ELSE holder
          /\ UNCHANGED <<conf, made, active, next, found, tries, call, asked, cut, torn>>
  /\ UNCHANGED outages

(* The first object from index i on that the lookup did not find.          *)
Skip(seen, i) ==
  LET missing == {k \in i..Len(Wanted) : Wanted[k] \notin seen}
  IN IF missing = {} THEN Len(Wanted) + 1 ELSE CHOOSE k \in missing : \A j \in missing : k <= j

(* findCollections: an index is made with its collection or not at all.    *)
Collections ==
  {o \in {"tasks", "nodes"} : o \in made}
    \cup {o \in Index : (o = "tasks index" /\ "tasks" \in made) \/ (o = "nodes index" /\ "nodes" \in made)}

(* ensureDatabaseExists: the role, the database and the privilege are      *)
(* probed with a connection, all three or nothing.                         *)
Probed == IF Admin \subseteq made THEN Admin ELSE {}

(* What Init looks up before it makes anything.                            *)
Lookup ==
  CASE conf.database = "mongodb" -> Collections
    [] conf.database = "postgres" -> Probed
    [] conf.database = "boltdb" -> made
    [] OTHER -> {}

LookFirst(s) ==
  /\ phase[s] = "look"
  /\ found' = [found EXCEPT ![s] = Lookup]
  /\ next' = [next EXCEPT ![s] = Skip(Lookup, 1)]
  /\ Goto(s, "make")
  /\ UNCHANGED <<conf, made, active, holder, tries, call, asked, cut, torn, outages>>

(* Init fails.  Postgres.Init tries again from the lookup, up to the tries *)
(* of the retrier; with the others NewServer returns the error.            *)
InitFails(s) ==
  IF conf.database = "postgres" /\ tries[s] < MaxListenTries
  THEN /\ tries' = [tries EXCEPT ![s] = @ + 1]
       /\ Goto(s, "look")
       /\ UNCHANGED <<conf, made, active, holder, next, found, call, asked, cut, torn>>
  ELSE Exit(s)

(* The making of an object in two steps, a look for it and its creation:   *)
(* initIndex makes two calls, createResources two for the database.  What  *)
(* Postgres is asked to create if it does not exist is looked for and      *)
(* created inside of one statement, which is no more atomic.               *)
CheckedFirst(o) ==
  \/ conf.database = "postgres" /\ o # "grant"
  \/ conf.database = "elastic"

Check(s) ==
  /\ phase[s] = "make" /\ next[s] <= Len(Wanted)
  /\ CheckedFirst(Wanted[next[s]])
  /\ IF Wanted[next[s]] \in made
     THEN next' = [next EXCEPT ![s] = Skip(found[s], @ + 1)] /\ UNCHANGED phase
     ELSE Goto(s, "create") /\ UNCHANGED next
  /\ UNCHANGED <<conf, made, active, holder, found, tries, call, asked, cut, torn, outages>>

AnyCreateErr(o) == o \in made

(* An object that is there by now is refused, except for a privilege, an  *)
(* index of MongoDB and a bucket; checkCreateErr takes the answer of       *)
(* DynamoDB that the table is in use for success.                          *)
CreateErr(o) ==
  /\ o \in made
  /\ \/ CheckedFirst(o)
     \/ conf.database = "mongodb" /\ o \notin Index

CreateTable(s) ==
  /\ next[s] <= Len(Wanted)
  /\ \/ phase[s] = "make" /\ ~CheckedFirst(Wanted[next[s]])
     \/ phase[s] = "create"
  /\ UNCHANGED outages
  /\ IF CreateErr(Wanted[next[s]])
     THEN InitFails(s)
     ELSE /\ made' = made \cup {Wanted[next[s]]}
          /\ next' = [next EXCEPT ![s] = Skip(found[s], @ + 1)]
          /\ Goto(s, "make")
          /\ UNCHANGED <<conf, active, holder, found, tries, call, asked, cut, torn>>

(* A table of DynamoDB that was created becomes ACTIVE some time later.    *)
TableReady ==
  /\ conf.database = "dynamodb"
  /\ \E o \in made \ active : active' = active \cup {o}
  /\ UNCHANGED <<conf, made, holder, phase, next, found, tries, call, asked, cut, torn,
                 outages>>

MadeAll(s) == phase[s] = "make" /\ next[s] > Len(Wanted)

NoWait(s) == MadeAll(s)

(* waitForTables returns when every table is ACTIVE, before Init returns;  *)
(* the other databases have nothing to wait for.                           *)
InitReturns(s) ==
  /\ MadeAll(s)
  /\ conf.database = "dynamodb" => Range(Wanted) \subseteq active

(* The rest of NewServer: the event writers, and a compute backend.  The   *)
(* manual one needs a database with nodes and a queue.                     *)
Assemble(s) ==
  /\ InitReturns(s)
  /\ UNCHANGED outages
  /\ IF conf.compute = "manual" /\ conf.database \notin Schedulers
     THEN Exit(s)
     ELSE /\ Goto(s, "serving")
          /\ ForgetAll(s)
          /\ UNCHANGED <<conf, made, active, holder, call, asked, cut, torn>>

-----------------------------------------------------------------------------

(* A call to the RPC port, or one through the HTTP gateway.                *)
Answer(s) ==
  /\ phase[s] = "serving" /\ call[s] = Nobody
  /\ \E c \in {"rpc", "http"} : call' = [call EXCEPT ![s] = c]
  /\ UNCHANGED <<conf, made, active, holder, phase, next, found, tries, asked, cut, torn,
                 outages>>

Answered(s) ==
  /\ call[s] # Nobody
  /\ call' = [call EXCEPT ![s] = Nobody]
  /\ UNCHANGED <<conf, made, active, holder, phase, next, found, tries, asked, cut, torn,
                 outages>>

(* The signal cancels the context of the process, at any time after Run    *)
(* was called; NewServer does not look at it.                              *)
Interrupt(s) ==
  /\ phase[s] = "serving"
  /\ asked' = asked \cup {s}
  /\ Goto(s, "stopping")
  /\ UNCHANGED <<conf, made, active, holder, next, found, tries, call, cut, torn, outages>>

(* ListenAndServe fails, the port is taken: Serve cancels its own context, *)
(* which is not the one that the scheduler looks at.                       *)
HTTPPortTaken(s) ==
  /\ phase[s] = "serving" /\ call[s] = Nobody
  /\ outages < MaxOutages /\ outages' = outages + 1
  /\ Goto(s, "failing")
  /\ UNCHANGED <<conf, made, active, holder, next, found, tries, call, asked, cut, torn>>

(* net.Listen fails for the RPC port: Serve returns the error at once.     *)
RPCPortTaken(s) ==
  /\ phase[s] = "serving" /\ call[s] = Nobody
  /\ outages < MaxOutages /\ outages' = outages + 1
  /\ Exit(s)

(* The gateway closes its connection once the context is done, with the    *)
(* call on it.                                                             *)
CloseGateway(s) ==
  /\ phase[s] = "stopping" /\ call[s] = "http"
  /\ call' = [call EXCEPT ![s] = Nobody]
  /\ cut' = [cut EXCEPT ![s] = "http"]
  /\ UNCHANGED <<conf, made, active, holder, phase, next, found, tries, asked, torn,
                 outages>>

StopNow(s) == phase[s] \in {"stopping", "failing"}

(* GracefulStop and Shutdown wait for the calls.                           *)
Drained(s) == phase[s] \in {"stopping", "failing"} /\ call[s] = Nobody

ServeReturns(s) ==
  /\ Drained(s)
  /\ Exit(s)
  /\ UNCHANGED outages

(* Scheduler.Run returns nil when the context is done, and Run returns the *)
(* first answer it gets: the process does not wait for Serve.              *)
SchedulerReturns(s) ==
  /\ phase[s] = "stopping" /\ conf.compute = "manual"
  /\ Exit(s)
  /\ UNCHANGED outages

(* A call of Init fails; waiting for the tables takes more than a minute.  *)
CallFails(s) ==
  /\ phase[s] \in {"look", "make", "create"}
  /\ Wanted # << >>
  /\ outages < MaxOutages /\ outages' = outages + 1
  /\ InitFails(s)

Crash(s) ==
  /\ phase[s] # "down"
  /\ outages < MaxOutages /\ outages' = outages + 1
  /\ phase' = [phase EXCEPT ![s] = "down"]
  /\ call' = [call EXCEPT ![s] = Nobody]
  /\ holder' = holder \ {s}
  /\ torn' = torn \cup TornBy(s)
  /\ ForgetAll(s)
  /\ UNCHANGED <<conf, made, active, asked, cut>>

Progress(s) ==
  \/ StartServer(s) \/ OpenDatabase(s) \/ LookFirst(s) \/ Check(s) \/ CreateTable(s) \/ Assemble(s)
  \/ Answered(s) \/ ServeReturns(s) \/ SchedulerReturns(s)

StartNext ==
  \/ \E s \in Servers : \/ Progress(s) \/ Answer(s) \/ Interrupt(s) \/ CloseGateway(s)
                         \/ HTTPPortTaken(s) \/ RPCPortTaken(s) \/ CallFails(s) \/ Crash(s)
  \/ TableReady

(* A running process goes on, the supervisor starts an exited one again,   *)
(* handlers return, and DynamoDB gets its tables ready.                    *)
StartFairness ==
  /\ \A s \in Servers : WF_startVars(Progress(s))
  /\ WF_startVars(TableReady)

StartSpec == StartInit /\ [][StartNext]_startVars /\ StartFairness

-----------------------------------------------------------------------------

(* Another server is about to make the index.                              *)
Underway(o) == \E s \in Servers : TornBy(s) = {o}

(* A server that accepts calls finds in the database everything that Init  *)
(* is to make, and DynamoDB's tables ready, however many servers ran Init  *)
(* at the same time and whichever of them failed midway.  The exception is *)
(* MongoDB.Init, which makes an index only together with its collection:   *)
(* the index may still be on its way, or missing for good when the server  *)
(* that made the collection went away in between (new.go of the databases).*)
InitMeansMade ==
  \A s \in Servers :
    phase[s] \in {"serving", "stopping", "failing"} =>
      /\ \A o \in Range(Wanted) \ made : o \in torn \/ Underway(o)
      /\ conf.database = "dynamodb" => Range(Wanted) \subseteq active

(* NewServer refuses the configuration, or another process has the file.   *)
Hindered(s) ==
  \/ conf.compute = "manual" /\ conf.database \notin Schedulers
  \/ conf.database \in Embedded /\ holder \ {s} # {}

(* A server that is started again whenever it exits comes up, again and    *)
(* again, until it is told to stop: what an interrupted or a concurrent    *)
(* Init left in the database never makes Init fail for ever.               *)
ServersComeUp ==
  \A s \in Servers : []<>(phase[s] = "serving" \/ s \in asked \/ Hindered(s))

(* Told to stop, a server lets every call to the RPC port end before it    *)
(* does (GracefulStop), unless it runs the scheduler of the manual backend *)
(* beside it: Run returns when the first of the two does, and the          *)
(* scheduler waits for nothing.  Calls through the HTTP gateway are always *)
(* liable to be cut off, the gateway closes its connection at the signal.  *)
StopKeepsCalls ==
  \A s \in Servers : cut[s] = "rpc" => conf.compute = "manual"
=============================================================================

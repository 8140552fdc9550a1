---------------------------- MODULE TaskListing ----------------------------
(***************************************************************************)
(* ListTasks of the seven task stores: a client (or a reconciler, which    *)
(* looks for the tasks in one state) pages through the tasks while others  *)
(* create tasks and change their states.                                   *)
(*                                                                         *)
(* A task is its position in the order of the task ids.  `created' is its  *)
(* rank in the order of the creation times: InitTask generates the id and  *)
(* takes the time in two steps, so that two concurrent calls may get them  *)
(* in opposite orders.                                                     *)
(***************************************************************************)
EXTENDS Integers, Sequences

CONSTANTS
  Database,    \* the stores to consider
  LastTask,    \* the tasks are 1 .. LastTask
  PageSizes,   \* the page sizes asked for
  MaxChanges   \* how often a task enters or leaves the filter

(* GetPageSize: the size asked for if it is positive, else the default.    *)
ASSUME PageAssumption == LastTask \in Nat /\ PageSizes \subseteq Nat \ {0}

VARIABLES
  store,     \* the store in use
  created,   \* rank of each task by creation time
  stored,    \* the tasks stored so far
  matches,   \* the tasks that the filter of the request selects
  filtered,  \* whether the request has a filter
  pageSize,  \* the page size of the request
  token,     \* the page token of the next request, 0 for the first page
  listed,    \* the tasks returned so far
  finished,  \* whether a page came without a token
  steady,    \* the tasks that were stored and selected all along
  changes    \* changes of the filter's verdict so far

listVars == <<store, created, stored, matches, filtered, pageSize, token, listed, finished,
              steady, changes>>

TaskId == 1 .. LastTask

(* The tasks of a set as a sequence, newest first (there is one).          *)
NewestFirst(tasks, rank) ==
  {s \in UNION {[1..n -> tasks] : n \in 0..LastTask} :
     /\ \A i, j \in DOMAIN s : i < j => rank[s[i]] > rank[s[j]]
     /\ \A t \in tasks : \E i \in DOMAIN s : s[i] = t}

(* The first of them up to the page size: by id in BoltDB, Badger, Elastic *)
(* and DynamoDB, by creation time in MongoDB, Postgres and Datastore.      *)
First(tasks, rank) ==
  {SubSeq(s, 1, IF Len(s) < pageSize THEN Len(s) ELSE pageSize) : s \in NewestFirst(tasks, rank)}

ById == [t \in TaskId |-> t]

(* Mutant: the page starts with the task the token names.                  *)
FromToken == {t \in stored : token = 0 \/ t <= token}

(* The tasks that may follow the page token, the id of the last task       *)
(* returned.                                                               *)
AfterToken == {t \in stored : token = 0 \/ t < token}

ListInit ==
  /\ store \in Database
  /\ created \in {f \in [TaskId -> TaskId] : \A t, u \in TaskId : f[t] = f[u] => t = u}
  /\ stored \in SUBSET TaskId
  /\ filtered \in BOOLEAN
  /\ matches \in SUBSET TaskId
  /\ ~filtered => matches = TaskId
  /\ pageSize \in PageSizes
  /\ token = 0
  /\ listed = <<>>
  /\ finished = FALSE
  /\ steady = stored \cap matches
  /\ changes = 0

(* Another client's CreateTask.                                            *)
StoreTask(t) ==
  /\ t \notin stored
  /\ stored' = stored \cup {t}
  /\ UNCHANGED <<store, created, matches, filtered, pageSize, token, listed, finished, steady,
                 changes>>

(* The state of a task changes, so that it enters or leaves the filter.    *)
Reclassify(t) ==
  /\ filtered
  /\ changes < MaxChanges
  /\ changes' = changes + 1
  /\ matches' = IF t \in matches THEN matches \ {t} ELSE matches \cup {t}
  /\ steady' = steady \ {t}
  /\ UNCHANGED <<store, created, stored, filtered, pageSize, token, listed, finished>>

(* A page is returned: the client asks for the next one as long as there   *)
(* is a token.                                                             *)
Return(page, next) ==
  /\ listed' = listed \o page
  /\ token' = next
  /\ finished' = (next = 0)
  /\ UNCHANGED <<store, created, stored, matches, filtered, pageSize, steady, changes>>

(* One page of a query is returned; a full page has a token.               *)
QueryPage(tasks, rank) ==
  \E page \in First(tasks \cap matches, rank) :
    Return(page, IF Len(page) = pageSize THEN page[pageSize] ELSE 0)

BoltPage == store = "boltdb" /\ QueryPage(AfterToken, ById)

BadgerPage == store = "badger" /\ QueryPage(AfterToken, ById)

ElasticPage == store = "elastic" /\ QueryPage(AfterToken, ById)

MongoPage == store = "mongodb" /\ QueryPage(AfterToken, created)

PostgresPage == store = "postgres" /\ QueryPage(AfterToken, created)

(* The token of Datastore is a cursor of its query.                        *)
DatastorePage ==
  /\ store = "datastore"
  /\ QueryPage({t \in stored : token = 0 \/ created[t] < created[token]}, created)

(* DynamoDB: the limit counts the items read, before the filter; the token *)
(* is the last item read, but only if some item passed the filter.         *)
DynamoPage ==
  /\ store = "dynamodb"
  /\ \E read \in First(AfterToken, ById) :
     \E page \in NewestFirst({t \in matches : \E i \in DOMAIN read : read[i] = t}, ById) :
       Return(page, IF page # <<>> /\ Len(read) = pageSize THEN read[pageSize] ELSE 0)

ListTasks ==
  /\ ~finished
  /\ \/ BoltPage
     \/ BadgerPage
     \/ ElasticPage
     \/ MongoPage
     \/ PostgresPage
     \/ DatastorePage
     \/ DynamoPage

ListNext ==
  \/ \E t \in TaskId : StoreTask(t) \/ Reclassify(t)
  \/ ListTasks

(* MongoDB and Postgres sort by creation time but continue after an id.    *)
OrdersAgree == store \in {"mongodb", "postgres"} => \A t \in TaskId : created[t] = t

(* A complete listing returns every task that was stored and selected from *)
(* the first page to the last exactly once, and no task twice, however     *)
(* tasks are created and change state between the pages.  Two cases are    *)
(* excepted, in which the code does not: MongoDB and Postgres repeat or    *)
(* skip tasks whose ids and creation times are in opposite orders, and     *)
(* DynamoDB ends a filtered listing at the first page of which no task     *)
(* passes the filter.                                                      *)
ListsEachOnce ==
  OrdersAgree =>
    /\ \A i, j \in DOMAIN listed : listed[i] = listed[j] => i = j
    /\ finished /\ ~(store = "dynamodb" /\ filtered) =>
         \A t \in steady : \E i \in DOMAIN listed : listed[i] = t
=============================================================================

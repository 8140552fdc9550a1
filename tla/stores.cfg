SPECIFICATION MCSpec
CONSTANTS
  Task = {t1}
  Writer = {w1, w2, w3}
  Kind = {"mongodb", "postgres", "elastic", "dynamodb", "datastore", "badger"}
  MaxTries = 2
  MaxFaults = 1
  Database = {"boltdb", "mongodb", "postgres", "elastic", "dynamodb", "datastore", "badger"}
  LastTask = 3
  PageSizes = {1, 2}
  MaxChanges = 2
  LastExecutor = 2
  MaxLosses = 1
  LogLevel = "info"
SYMMETRY Symmetry
INVARIANTS FinalStays EventsKept  ViewsExact
  StreamFollowsStore 
PROPERTY ImplementsLifecycle
CHECK_DEADLOCK FALSE

SPECIFICATION Spec
CONSTANTS
  a = a
  b = b
  c = c
  t1 = t1
  t2 = t2
  task = task
  fact = fact
  NoBody = NoBody
  Nodes = {a, b, c}
  Topics = {t1, t2}
  Reads <- MCReads
  TaskKeys = {task}
  FactKeys = {fact}
  Owner <- MCOwner
  ClientOps = {"UPSERT", "COMPLETE"}
  TTLs <- MCTTLs
  TopicsOf <- MCTopicsOf
  MaxSeq = 3
  MaxTime = 3
  MaxPublications = 3
INVARIANTS ReplicationTypeOK ShowsLastReceived ShownIsFetchable
PROPERTIES ImplementsBulletin

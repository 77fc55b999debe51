SPECIFICATION PublishSpec
CONSTANTS
  NoBody = NoBody
  TaskKeys = {t1}
  FactKeys = {}
  Refs <- MCRefs
  Bodies = {r1, r2}
  Requests = {r1, r2}
  MaxSeq = 2
  MaxTime = 3
  FactEnvelopes <- NoFacts
  TTLs <- MCTTLs
  OneAtATime = FALSE
  KeepClosed = TRUE
INVARIANTS FetchSucceeds
SYMMETRY RequestsAlike

SPECIFICATION PublishSpec
CONSTANTS
  NoBody = NoBody
  TaskKeys = {t1}
  FactKeys = {f1}
  Refs <- MCRefs
  Bodies = {r1, r2, r3}
  Requests = {r1, r2, r3}
  MaxSeq = 2
  MaxTime = 3
  FactEnvelopes <- NoFacts
  TTLs <- MCTTLs
  OneAtATime = TRUE
  KeepClosed = TRUE
INVARIANTS SentIsFetchable SentIsRecorded OneEnvelopePerNumber
SYMMETRY RequestsAlike

SPECIFICATION InboundSpec
CONSTANTS
  NoBody = NoBody
  t1 = t1
  f1 = f1
  b1 = b1
  l1 = l1
  l2 = l2
  TaskKeys = {t1}
  FactKeys = {f1}
  Refs = {}
  Bodies = {b1}
  MaxSeq = 2
  MaxTime = 2
  FactEnvelopes <- MCFacts
  Loops = {l1, l2}
  Arrivals <- MCArrivals
  Conforming <- Genuine
  Limit = 2
  Minute = 2
  MaxLives = 2
INVARIANTS AppliedOnce TableNotBehindLog RefusedOnlyOverLimit

SPECIFICATION FairSpec
CONSTANTS
  NoBody = NoBody
  TaskKeys = {t1}
  FactKeys = {f1}
  Refs = {r1}
  Bodies = {b1}
  MaxSeq = 2
  MaxTime = 3
  FactEnvelopes <- SteadyFacts
INVARIANTS TypeOK TasksFileIsPast FactsFileIsPast
PROPERTIES DiskIsLedger FactsOnDiskAdvance LapsedIsSwept

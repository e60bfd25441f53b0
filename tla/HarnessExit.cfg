SPECIFICATION Spec
CONSTANTS
  Workers = {w1, w2}
  Jobs = {c1, c2, c3}
  NoJob = null
  NoQuery = garbage
  QueueSize = 3
  Projections = 2
  Batches <- OneBatch
INVARIANTS
  EveryQueryExecuted

CHECK_DEADLOCK FALSE

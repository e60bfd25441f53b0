SPECIFICATION FairSpec
CONSTANTS
  Workers = {w1, w2}
  Client = client
  NoThread = nobody
  Jobs = {j1, j2, j3}
  NoJob = null
  QueueSize = 3
  MaxBarriers = 2
  MaxSpurious = 0
PROPERTIES
  BarrierTerminates
  JobsComplete
  StopReturnsUnlessRaced
  ImplementsPool
CHECK_DEADLOCK FALSE

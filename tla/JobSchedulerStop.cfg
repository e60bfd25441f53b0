SPECIFICATION FairSpec
CONSTANTS
  Workers = {w1}
  Client = client
  NoThread = nobody
  Jobs = {j1}
  NoJob = null
  QueueSize = 2
  MaxBarriers = 0
  MaxSpurious = 0
PROPERTIES
  StopReturns
CHECK_DEADLOCK FALSE

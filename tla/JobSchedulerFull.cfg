SPECIFICATION Spec
CONSTANTS
  Workers = {w1}
  Client = client
  NoThread = nobody
  Jobs = {j1, j2}
  NoJob = null
  QueueSize = 2
  MaxBarriers = 0
  MaxSpurious = 0
INVARIANTS
  ScheduledJobsAreAdded
CHECK_DEADLOCK FALSE

SPECIFICATION Spec
CONSTANTS
  Workers = {w1, w2, w3}
  Client = client
  NoThread = nobody
  Jobs = {j1, j2, j3, j4}
  NoJob = null
  QueueSize = 3
  MaxBarriers = 2
  MaxSpurious = 1
SYMMETRY Symmetry
INVARIANTS
  IInv
  TypeOK
  NoJobLost
  NoJobDuplicated
  BarrierCompletes
  BarrierRoundsAligned
  StopDrains
  DestroySafe
  OnlyStopHangs
PROPERTIES
  NoJobRunsUnderBarrier
  BehavesAsPool
CHECK_DEADLOCK FALSE

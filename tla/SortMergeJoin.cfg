SPECIFICATION Spec
CONSTANTS
  Radix = 2
  FirstChunk = 3
  BucketLimit = 3
  Lefts <- MCLefts
  Rights <- MCRights
INVARIANTS
  TypeOK
  BucketComplete
  InOrder
  JoinExact
PROPERTIES
  BucketSorted
  JoinEnds
CHECK_DEADLOCK FALSE

SPECIFICATION Spec
CONSTANTS
  Columns = {0, 1, 2}
  MatrixInitialCapacity = 4
  Databases <- SmallDatabases
  Queries <- ManyQueries
INVARIANTS
  TypeOK
  IntermediateExact
  RegularResult
  MarksTruthful
  MergesInOrder
  MissingIdsOnlyIfRagged
CHECK_DEADLOCK FALSE

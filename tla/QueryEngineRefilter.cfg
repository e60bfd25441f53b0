SPECIFICATION Spec
CONSTANTS
  Columns = {0, 1, 2}
  MatrixInitialCapacity = 4
  Databases <- SomeDatabase
  Queries <- TwoFilters
PROPERTIES
  RefilterOnlyRemoves
CHECK_DEADLOCK FALSE

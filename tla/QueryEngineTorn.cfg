SPECIFICATION Spec
CONSTANTS
  Columns = {0, 1, 2}
  MatrixInitialCapacity = 4
  Databases <- SomeDatabase
  Queries <- TwoColumns
INVARIANTS
  ResultIsSQL
CHECK_DEADLOCK FALSE

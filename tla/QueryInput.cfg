SPECIFICATION Spec
CONSTANTS
  Inputs <- MCInputs
  Files <- MCFiles
  MaxPath = 3
  MaxQuery = 13
  PageWords = 4
  IntValues = 8
  WordValues = 256
INVARIANTS
  TypeOK
  BatchesAsWritten
  RelationsInPlace
  OnlyTailUnmapped
  PredicatesAsWritten
  DoublyLinked
  JoinsInOrder
  NodesFreedOnce

\* Every method that reads a query in pages, beside three writes.
SPECIFICATION Spec
CONSTANTS
  Ids = {1, 2, 3, 4, 5}
  Size = 2
  MaxWrites = 3
INVARIANTS
  ByIdOnce
  ByIdComplete
  OffsetDrift
  EachIndex
PROPERTIES
  ReadingEnds

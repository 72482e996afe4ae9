\* Two selects of one query beside writes, a transaction and evictions.
SPECIFICATION Spec
CONSTANTS
  Clients = {c1, c2}
  Durations = {1}
  MaxTime = 3
  MaxVersion = 2
  CachedInTransaction = FALSE
SYMMETRY Symmetry
INVARIANTS
  EntryWithinTime
PROPERTIES
  ServedWithinDuration

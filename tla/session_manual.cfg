\* One session under manual control; a concurrency error fails its statement alone.
SPECIFICATION Spec
CONSTANTS
  Queries = {q1, q2, q3}
  DeadlockUndoes = FALSE
  MaxLevel = 3
  MaxSavepoints = 4
SYMMETRY Symmetry
INVARIANTS
  TypeOK
  IdleHoldsNothing
  AnnouncedIsDurable
PROPERTIES
  OutermostAnnounced
  ImplementsNested

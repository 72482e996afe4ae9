\* Two nested transactions one after the other; the second is rolled back.
SPECIFICATION Spec
CONSTANTS
  Queries = {q1}
  DeadlockUndoes = FALSE
  MaxLevel = 2
  MaxSavepoints = 4
PROPERTIES
  CommittedAnnounced

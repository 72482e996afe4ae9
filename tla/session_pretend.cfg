\* pretend and withoutPretending, one dry run inside another only through withoutPretending.
SPECIFICATION Spec
CONSTANTS
  Queries = {q1, q2, q3, q4}
  MaxDepth = 5
  NestedPretend = FALSE
  MayCatch = FALSE
SYMMETRY Symmetry
INVARIANTS
  DryRunExecutesNothing
  OthersExecuted
  PretendReturnsItsQueries
  RestoredOutside

\* Callbacks that await one branch, or two together, with a retry.
SPECIFICATION Spec
CONSTANTS
  Branches = {b1, b2}
  Statements = 2
  Attempts = 2
SYMMETRY Symmetry
INVARIANTS
  ParallelAnnouncedIsDurable
  ParallelReturned
  SequentialIsAtomic
  OnlyStragglersEscape
  SettledHoldsNothing

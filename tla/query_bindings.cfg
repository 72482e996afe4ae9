\* Every sequence of three calls and statements, in each of the four grammars.
SPECIFICATION Spec
CONSTANTS
  MaxCalls = 3
INVARIANTS
  SelectBound
  CountBound
  WriteBound
  InsertBound
PROPERTIES
  ReadsRepeat
CHECK_DEADLOCK FALSE

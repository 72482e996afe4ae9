\* Two names, so that a column may go behind another and an index may have two columns.
SPECIFICATION Spec
CONSTANTS
  n1 = n1
  n2 = n2
  Methods = {"string", "id", "timestamp", "foreignId"}
  Modifiers = {"plain", "nullable", "default", "useCurrent", "storedAs", "comment",
               "startingValue", "unique", "named", "uniqueOff", "primary", "renameTo"}
  Names = {n1, n2}
  MaxCalls = 2
  MaxBuilds = 2
SYMMETRY Symmetry
INVARIANTS
  BuildSucceeds
  BuiltAsDescribed
CHECK_DEADLOCK FALSE

\* One order column, four rows at most, pages of one row, nobody writes.
SPECIFICATION Spec
CONSTANTS
  Columns = 1
  Values = {1, 2, 3, 4}
  PerPage = 1
  MaxWrites = 0
INVARIANTS
  PreviousIsPreceding

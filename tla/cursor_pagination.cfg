\* Three order columns in every mix of directions, pages of two rows, one write.
SPECIFICATION Spec
CONSTANTS
  Columns = 3
  Values = {1, 2}
  PerPage = 2
  MaxWrites = 1
INVARIANTS
  NextIsFollowing
  ForwardComplete
PROPERTIES
  PreviousStaysBefore

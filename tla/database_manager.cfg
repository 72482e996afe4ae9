\* Two calls that overlap, and connections made beside them, under two names, one
\* of which has a pool for reading.
SPECIFICATION Spec
CONSTANTS
  n = n
  m = m
  c1 = c1
  c2 = c2
  c3 = c3
  p1 = p1
  p2 = p2
  None = None
  Names = {n, m}
  ReadWrite = {n}
  Connections = {c1, c2, c3}
  Calls = {p1, p2}
SYMMETRY Symmetry
INVARIANTS
  LostPoolExplained
  TerminatedClosed
  ReconnectedUsable
CHECK_DEADLOCK FALSE

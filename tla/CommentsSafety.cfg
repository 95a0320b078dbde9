SPECIFICATION Spec
CONSTANTS
  Rows = {1, 2, 3}
  Posts = {p1, p2}
  Requests = {r1, r2}
  Top = Top
  None = None
SYMMETRY Symmetric
INVARIANTS TypeOK ThreadsOnOnePost NothingOnDeleted DeletedThreadHidden
PROPERTY DeletedForever

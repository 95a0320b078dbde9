SPECIFICATION Spec
CONSTANTS
  Users = {u1}
  Posts = {p1}
  Requests = {r1, r2, r3}
  MaxRows = 2
  None = None
SYMMETRY Symmetric
INVARIANTS TypeOK NothingLostSilently
PROPERTY OnlyLoadedRowRemoved

SPECIFICATION Spec
CONSTANTS
  Users = {u1}
  Requests = {r1, r2}
  Jtis = {1, 2, 3}
  MaxPw = 2
  None = None
SYMMETRY Symmetric
INVARIANT SingleUse

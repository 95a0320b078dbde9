SPECIFICATION Spec
CONSTANTS
  Users = {1, 2}
  Emails = {e1, e2}
  Names = {n1, n2}
  Requests = {r1, r2}
  None = None
SYMMETRY Symmetric
INVARIANTS TypeOK AccountsDistinct VerifiedByHolder
PROPERTY AddressChanges

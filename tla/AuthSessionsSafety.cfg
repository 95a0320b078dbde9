SPECIFICATION Spec
CONSTANTS
  Users = {u1, u2}
  Requests = {r1, r2}
  Jtis = {1, 2}
  MaxPw = 1
  None = None
SYMMETRY Symmetric
INVARIANTS RotationAtomic RevokeAllCoversEarlier RevokedTokenRefused DeletedAccountRefused
PROPERTIES StoreSpec

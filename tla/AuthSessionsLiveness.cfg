SPECIFICATION SpecFromThreeSessions
CONSTANTS
  Users = {u1}
  Requests = {r1, r2}
  Jtis = {1, 2, 3, 4}
  MaxPw = 0
  None = None
INVARIANT NoDeadlock
PROPERTY EveryRequestAnswered

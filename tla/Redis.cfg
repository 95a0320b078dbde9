SPECIFICATION SpecRedis
CONSTANTS
  Clients = {c1}
  Calls = {r1, r2, r3}
  Limit = 2
  Window = 2
  MaxCount = 4
  MaxCallFaults = 2
  Tokens = {t1}
  Requests = {q1, q2}
  Res = 2
  Life = 4
  MaxNow = 12
  NoToken = NoToken
INVARIANTS WindowBudget KeyWillExpire LoggedOutRefused TtlAccepted
PROPERTIES WindowNotExtended LimitedClientRecovers

SPECIFICATION Spec
CONSTANTS
  Mails = {m1, m2}
  Workers = {}
  MaxTries = 4
  MaxFaults = 1
  None = None
CHECK_DEADLOCK FALSE
SYMMETRY Symmetric
INVARIANT SentWithoutWorker

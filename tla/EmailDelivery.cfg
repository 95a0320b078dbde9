SPECIFICATION FairSpec
CONSTANTS
  Mails = {m1, m2}
  Workers = {w1, w2}
  MaxTries = 4
  MaxFaults = 2
  None = None
CHECK_DEADLOCK FALSE
INVARIANTS TypeOK NotLostSilently ExtraCopiesFromLostReplies
PROPERTY EveryMailSent

SPECIFICATION Spec
CONSTANTS
  s1 = s1
  s2 = s2
  s3 = s3
  s4 = s4
  s5 = s5
  p1 = p1
  p2 = p2
  p3 = p3
  Safekeepers = {s1, s2, s3, s4, s5}
  Proposers = {p1, p2, p3}
  None = None
  BrokerUp = TRUE
  CreatedWithLsn = TRUE
  LateDelivery = FALSE
  WalSegSize = 4
  MaxSendSize = 1
  MaxAlive = 2
  MaxLinks <- AllOfRoute
  MaxReplies = 1
  QueueCap = 1
  MaxBusy = 2
  MaxTerm = 3
  MaxLsn = 3
  MaxFaults = 0
CONSTRAINT Scenario
INVARIANTS
  NeverTruncatesCommitted
CHECK_DEADLOCK FALSE

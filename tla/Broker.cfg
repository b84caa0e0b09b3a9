SPECIFICATION Spec
CONSTANTS
  Safekeepers = {s1, s2, s3}
  Proposers = {p1, p2}
  None = None
  BrokerUp = TRUE
  CreatedWithLsn = FALSE
  LateDelivery = TRUE
  WalSegSize = 2
  MaxSendSize = 2
  MaxAlive = 1
  MaxLinks <- TwoEach
  MaxReplies = 1
  QueueCap = 1
  MaxBusy = 3
  MaxTerm = 2
  MaxLsn = 2
  MaxFaults = 0
  FirstRun = p1
SYMMETRY FullSymmetry
INVARIANTS
  SafekeeperCommitIsCommitted
  
PROPERTIES
  ServiceSpec
CHECK_DEADLOCK FALSE

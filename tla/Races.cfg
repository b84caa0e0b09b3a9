SPECIFICATION Spec
CONSTANTS
  Safekeepers = {s1, s2, s3}
  Proposers = {p1, p2}
  None = None
  BrokerUp = FALSE
  CreatedWithLsn = FALSE
  LateDelivery = TRUE
  WalSegSize = 2
  MaxSendSize = 2
  MaxAlive = 2
  MaxLinks <- TwoEach
  MaxReplies = 1
  QueueCap = 1
  MaxBusy = 1
  MaxTerm = 2
  MaxLsn = 2
  MaxFaults = 0
  FirstRun = p1
SYMMETRY FullSymmetry
INVARIANTS
  OneLeaderPerTerm
  AckedWalSurvivesElections
  LeadersAgreeOnCommitted
CHECK_DEADLOCK FALSE

SPECIFICATION Spec
CONSTANTS
  Safekeepers = {s1, s2, s3}
  Proposers = {p1}
  None = None
  BrokerUp = FALSE
  CreatedWithLsn = FALSE
  LateDelivery = TRUE
  WalSegSize = 2
  MaxSendSize = 2
  MaxAlive = 1
  MaxLinks <- ThreeEach
  MaxReplies = 1
  QueueCap = 1
  MaxBusy = 3
  MaxTerm = 1
  MaxLsn = 2
  MaxFaults = 1
  FirstRun = p1
SYMMETRY FullSymmetry
PROPERTIES
  DonorIsAVoter
CHECK_DEADLOCK FALSE

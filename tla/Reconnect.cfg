SPECIFICATION FairSpec
CONSTANTS
  Safekeepers = {s1, s2}
  Proposers = {p1}
  None = None
  BrokerUp = FALSE
  CreatedWithLsn = FALSE
  LateDelivery = TRUE
  WalSegSize = 2
  MaxSendSize = 2
  MaxAlive = 1
  MaxLinks <- TwoEach
  MaxReplies = 2
  QueueCap = 1
  MaxBusy = 2
  MaxTerm = 2
  MaxLsn = 2
  MaxFaults = 2
  FirstRun = p1
PROPERTIES
  WrittenIsReplicated
CHECK_DEADLOCK FALSE

SPECIFICATION Spec
CONSTANTS
  Safekeepers = {s1, s2, s3}
  Proposers = {p1, p2}
  None = None
  BrokerUp = FALSE
  CreatedWithLsn = TRUE
  LateDelivery = TRUE
  WalSegSize = 2
  MaxSendSize = 2
  MaxAlive = 1
  MaxLinks <- TwoThenThree
  MaxReplies = 1
  QueueCap = 2
  MaxBusy = 1
  MaxTerm = 2
  MaxLsn = 2
  MaxFaults = 0
  FirstRun = p1
SYMMETRY SafekeeperSymmetry
INVARIANTS
  HistoryDescribesWal
  ElectedAssertions
  StreamsOnlyAvailableWal
  SafekeeperCommitIsCommitted
PROPERTIES
  ServiceSpec
CHECK_DEADLOCK FALSE

SPECIFICATION Spec
CONSTANTS
  Parts = {"history", "ops", "seqwait", "spsc", "once", "rcu", "ring", "pages"}
  MaxHistTerm = 4
  MaxHistLsn = 4
  SoSks = {s1, s2, s3}
  SoMaxFaults = 1
  Waiters = {w1, w2}
  Advancers = {a1, a2}
  MaxNum = 3
  MaxWaits = 2
  MaxSends = 4
  OcTasks = {t1, t2, t3}
  MaxDeinits = 2
  Readers = {r1, r2, r3}
  Writers = {u1, u2}
  MaxStores = 4
  Tags = {g1, g2, g3}
  NoTag = none
  PrSizes = {3, 4}
  PrSize = 4
  FlushEvery = 2
  MaxRequests = 6
  MaxResizes = 1
  PcBackends = {b1, b2}
  StoresPrefetch = {b1}
  FastTurnover = FALSE
  MaxWal = 3
  MaxSwitches = 1
INVARIANTS
  CommonPointIsLongestCommonPrefix
  BothSearchesAgree
  
  
  
  NobodySleepsOn
  
  OneInitializer
  NoOldReaders
  EveryResponseFindsItsPage
  
CHECK_DEADLOCK FALSE

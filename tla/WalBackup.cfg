SPECIFICATION Spec
CONSTANTS
  PbSegSize = 2
  DeleteOffloadedWal = TRUE
  MaxSimultaneous = 1
  PbNone = PbNone
  PbMaxLsn = 4
  PbMaxTerm = 2
  PbMaxFaults = 1
  WoSks = {1, 2}
  LocalStart <- LateJoiner
  ParallelJobs = 2
  WoMaxSeg = 3
  WoMaxFaults = 1
INVARIANTS
  UploadedPartialIsWal
  EvictedIsRestorable
  NoLeakedPartials
  BackupIsGapless
  RemovedWalIsSafe
PROPERTIES
  EventuallyEvicted
  OffloadCatchesUp
CHECK_DEADLOCK FALSE

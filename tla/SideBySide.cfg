\* The components of the detectors and of the wallets that share no state, one at a time.
SPECIFICATION SideSpec
CONSTANTS
  Callers = {c1, c2}
  Fillers = {f1, f2}
  Syncer = sy
  NoNonce = none
  MaxPending = 2
  PoolSize = 1
  PoolThreshold = 0
  MaxNonce = 2
  MaxGeneration = 1
  Keys = {ka, kb}
  Tags = {ta}
  MaxStamp = 2
  TotalSlots = 2
  MaxPairs = 1
  RegistryMax = 1
  Buckets = 4
  HomeBucket <- OneBucket
  Workers = {w1}
  MaxRetries = 2
  MaxSequence = 4
  Chains = {x1, x2}
  Batchers = {b1, b2}
  NoBatcher = nobatcher
  MaxBatch = 2
  QueueCap = 2
  WatchdogLimit = 1
  MaxUpdates = 3
  MaxXaddFaults = 1
SYMMETRY AllAlike
INVARIANTS NonceTypeOK NonceLockExclusive NoLostWakeup NoncesDistinct NoNonceLost
INVARIANTS ReadsAreWhole PublishedIsComplete
INVARIANTS NothingLost SentInOrder StopHasFlush SilencedByOthers

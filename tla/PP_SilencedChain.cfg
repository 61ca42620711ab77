\* Two chains that share a batcher; the watchdog restarts one of them.
SPECIFICATION PublishSpec
CONSTANTS
  Chains = {x1, x2}
  Batchers = {b1, b2, b3}
  NoBatcher = nobatcher
  MaxBatch = 2
  QueueCap = 2
  WatchdogLimit = 1
  MaxUpdates = 1
  MaxXaddFaults = 0
INVARIANTS ChainsKeepPublishing
CHECK_DEADLOCK FALSE

SPECIFICATION NarrowSpec
CONSTANTS
  i1 = i1  i2 = i2
  o1 = o1  o2 = o2  o3 = o3
  m1 = m1  m2 = m2  m3 = m3
  eth = eth
  None = None
  Instances = {i1, i2}
  Opps = {o1, o2}
  Msgs = {m1, m2}
  OppOf <- Distinct
  ChainOf <- OneChain
  Mortal = {i1, i2}
  Stoppable = {i1, i2}
  MaxConcurrent = 2
  MaxPerChain = 1
  QueueMax = 2
  HighWater = 2
  LowWater = 0
  MaxCbAttempts = 1
  ConflictThreshold = 3
  ConflictWindow = 1
  ConflictMinAge = 1
  ExecTimeout = 1
  LockTtl = 2
  DedupTtl = 2
  PendingMaxAge = 2
  RecoverLimit = 3
  MaxFaults = 2
SYMMETRY PairsOrInstancesAlike
INVARIANTS TypeOK NoOrphanedEntry PausedHasBacklog
PROPERTIES AckOnlyAfterExecution

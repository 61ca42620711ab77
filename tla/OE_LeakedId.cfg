SPECIFICATION Spec
CONSTANTS
  i1 = i1  i2 = i2
  o1 = o1  o2 = o2  o3 = o3
  m1 = m1  m2 = m2  m3 = m3
  eth = eth
  None = None
  Instances = {i1}
  Opps = {o1}
  Msgs = {m1}
  OppOf <- Distinct
  ChainOf <- OneChain
  Mortal = {}
  Stoppable = {}
  MaxConcurrent = 1
  MaxPerChain = 0
  QueueMax = 2
  HighWater = 2
  LowWater = 0
  MaxCbAttempts = 2
  ConflictThreshold = 3
  ConflictWindow = 1
  ConflictMinAge = 1
  ExecTimeout = 1
  LockTtl = 2
  DedupTtl = 2
  PendingMaxAge = 3
  RecoverLimit = 3
  MaxFaults = 0
INVARIANTS ActiveIsAccountedFor

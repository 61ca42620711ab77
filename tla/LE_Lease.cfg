SPECIFICATION FairSpec
CONSTANTS
  c1 = c1  c2 = c2
  None = None
  Instances = {c1, c2}
  Standbys = {c2}
  LockTtl = 8
  HeartbeatMin = 1
  HeartbeatMax = 1
  MaxFailures = 2
  Latency = 1
  Mortal = {c1}
  Stoppable = {c2}
  Unlucky = {c2}
  MaxFaults = 3
INVARIANTS TypeOK OneLeaderIfLeaseOutlasts LeaderInTimeHoldsLock
PROPERTIES LockLostOnlyByOwner SomebodyLeads

SPECIFICATION Spec
CONSTANTS
  c1 = c1  c2 = c2
  None = None
  Instances = {c1, c2}
  Standbys = {}
  LockTtl = 15
  HeartbeatMin = 4
  HeartbeatMax = 6
  MaxFailures = 3
  Latency = 0
  Mortal = {}
  Stoppable = {}
  Unlucky = {c1, c2}
  MaxFaults = 2
SYMMETRY InstancesAlike
INVARIANTS OneLeader
